---- MODULE Spec2Model ----
(***************************************************************************)
(* Model of skylight-mcp: the authenticated API client                     *)
(* (src/src/api/client.ts, src/src/api/auth.ts, src/src/config.ts,         *)
(* src/src/utils/errors.ts), the tool handlers (src/src/tools) and the     *)
(* date and time utilities (src/src/utils/dates.ts,                        *)
(* src/src/api/endpoints/calendar.ts).                                     *)
(*                                                                         *)
(* Spec: one SkylightClient serves NDispatch calls of request() or         *)
(* initialize().  JavaScript runs every continuation to its next network   *)
(* await without interleaving, so an action is one such run: the start of  *)
(* a request() up to its first fetch, the settlement of the login fetch    *)
(* together with the continuations of everything awaiting loginPromise,    *)
(* and the settlement of one resource fetch up to the next fetch or the    *)
(* end of the dispatch.                                                    *)
(*                                                                         *)
(* ToolSpec: one tool handler and the outcome of the operations under it.  *)
(* DateSpec: one call of getCalendarEvents or parseDate at some instant on *)
(* a host in some time zone.  TimeSpec: one call of parseTime.             *)
(* LiveSpec: Spec with every login and every resource request answered.    *)
(* ConfigSpec: the process loads its configuration from the environment    *)
(* (src/src/config.ts) and, when it is accepted, runs the client.          *)
(* ListSpec: one run of update_list, delete_list or create_list_item       *)
(* (src/src/tools/lists.ts, src/src/api/endpoints/lists.ts).  ChoreSpec:   *)
(* one run of create_chore, update_chore, create_reward or redeem_reward   *)
(* (src/src/tools/chores.ts, src/src/tools/rewards.ts and the chore        *)
(* endpoint functions createChore and updateChore).                        *)
(*                                                                         *)
(* Strings whose content matters (tokens, user ids, Authorization headers, *)
(* dates, times) are sequences of character codes; a null/undefined        *)
(* string is Null.                                                         *)
(***************************************************************************)
EXTENDS Integers, Sequences, FiniteSets, TLC

\* ------------------------------------------------------------------ bounds
NDispatch == 2
Dispatches == 1..NDispatch

\* --------------------------------------------------------------- strings
Null == <<-1>>

\* JavaScript truthiness of a value of type string | null.
Truthy(s) == s # Null /\ s # <<>>

\* The index-th character of the base64 alphabet A-Z a-z 0-9 + /.
B64Char(i) ==
  IF i < 26 THEN 65 + i
  ELSE IF i < 52 THEN 97 + (i - 26)
  ELSE IF i < 62 THEN 48 + (i - 52)
  ELSE IF i = 62 THEN 43 ELSE 47

\* Buffer.from(s).toString("base64") on a sequence of bytes.
RECURSIVE Base64(_)
Base64(b) ==
  IF Len(b) = 0 THEN <<>>
  ELSE IF Len(b) = 1 THEN
    << B64Char(b[1] \div 4), B64Char((b[1] % 4) * 16), 61, 61 >>
  ELSE IF Len(b) = 2 THEN
    << B64Char(b[1] \div 4),
       B64Char((b[1] % 4) * 16 + (b[2] \div 16)),
       B64Char((b[2] % 16) * 4), 61 >>
  ELSE
    << B64Char(b[1] \div 4),
       B64Char((b[1] % 4) * 16 + (b[2] \div 16)),
       B64Char((b[2] % 16) * 4 + (b[3] \div 64)),
       B64Char(b[3] % 64) >> \o Base64(SubSeq(b, 4, Len(b)))

BasicPrefix == << 66, 97, 115, 105, 99, 32 >>            \* "Basic "
BearerPrefix == << 66, 101, 97, 114, 101, 114, 32 >>     \* "Bearer "
Colon == << 58 >>                                        \* ":"

\* ---------------------------------------------------------- input domains
\* SKYLIGHT_TOKEN values: "t", "QQ==" (a token that is itself base64 text).
ConfigTokens == { << 116 >>, << 81, 81, 61, 61 >> }
\* Tokens the login endpoint hands out: "a", "bc" (never empty).
LoginTokens == { << 97 >>, << 98, 99 >> }
\* data.id of the login response: "7" or the empty string.
LoginUserIds == { << 55 >>, << >> }
\* The request (method and path) that caller d makes.
DescriptorOf(d) == IF d % 2 = 1 THEN "GET /chores" ELSE "POST /lists"

\* Configurations that ConfigSchema accepts (frameId and timezone are not
\* read by the credential logic and are left out).
Configs ==
  { c \in [ email : BOOLEAN, password : BOOLEAN,
            token : ConfigTokens \cup {Null},
            authType : {"bearer", "basic"} ] :
      (c.email /\ c.password) \/ c.token # Null }

usesEmailAuth(c) == c.email /\ c.password


\* ---------------------------------------------------------------- errors
\* A thrown value: the fields of SkylightError; a value that is no
\* SkylightError (Error, TypeError, SyntaxError) has code "none".
SkylightError(message, code, statusCode, recoverable) ==
  [ name |-> "SkylightError", message |-> message, code |-> code,
    statusCode |-> statusCode, recoverable |-> recoverable ]

\* Messages are tuples of the pieces the code concatenates.
DefaultAuthMessage ==
  << "Authentication failed. Your token may be expired or invalid." >>
FrameIdHintMessage ==
  << "API request returned 401. This may indicate your frame ID is incorrect or doesn't belong to this account. ",
     "Please verify your SKYLIGHT_FRAME_ID environment variable." >>
LoginInvalidMessage ==
  << "Invalid email or password. Please check your SKYLIGHT_EMAIL and SKYLIGHT_PASSWORD environment variables." >>

AuthenticationError(message) ==
  [ SkylightError(message, "AUTH_FAILED", 401, TRUE)
      EXCEPT !.name = "AuthenticationError" ]

NotFoundError(resource) ==
  [ SkylightError(<<resource, " not found">>, "NOT_FOUND", 404, FALSE)
      EXCEPT !.name = "NotFoundError" ]

\* A JavaScript value of type number | undefined.
Num(v) == [ t |-> "number", v |-> v ]
NaN == [ t |-> "NaN", v |-> 0 ]
Undefined == [ t |-> "undefined", v |-> 0 ]
NumTruthy(n) == n.t = "number" /\ n.v # 0

RateLimitError(retryAfter) ==
  [ SkylightError(
      IF NumTruthy(retryAfter)
        THEN << "Rate limited by Skylight API. ", "Retry after ",
                ToString(retryAfter.v), "s" >>
        ELSE << "Rate limited by Skylight API. ",
                "Please wait and try again." >>,
      "RATE_LIMITED", 429, TRUE)
      EXCEPT !.name = "RateLimitError" ]

\* new Error(message), and the TypeError / SyntaxError that fetch() and
\* response.json() reject with.
PlainError(name, message) ==
  [ name |-> name, message |-> message, code |-> "none",
    statusCode |-> 0, recoverable |-> FALSE ]

NoError == PlainError("none", << >>)

\* error instanceof SkylightError
IsSkylightError(e) ==
  e.name \in { "SkylightError", "AuthenticationError", "NotFoundError",
               "RateLimitError", "ConfigurationError", "ParseError" }

\* ------------------------------------------------------ network replies
\* What the login endpoint can answer: a 2xx with a parseable body, a
\* 2xx whose body is not the expected JSON, a non-2xx status, or no
\* answer at all (fetch rejects).
LoginReplies ==
  [ kind : {"ok"}, status : {200}, userId : LoginUserIds,
    token : LoginTokens, subscriptionStatus : { "plus" } ]
  \cup
  [ kind : {"badbody"}, status : {200}, userId : {Null}, token : {Null},
    subscriptionStatus : {"none"} ]
  \cup
  [ kind : {"status"}, status : {401, 500}, userId : {Null},
    token : {Null}, subscriptionStatus : {"none"} ]
  \cup
  [ kind : {"neterr"}, status : {0}, userId : {Null}, token : {Null},
    subscriptionStatus : {"none"} ]

\* What a resource endpoint can answer; json tells whether the body of
\* the response parses as JSON; retryAfter is its Retry-After header
\* (Null = absent).
ResourceStatuses == { 200, 304, 400, 401, 404, 429, 500 }
\* Retry-After: absent, "30", "0".
RetryAfterHeaders == { Null, << 51, 48 >>, << 48 >> }
ResourceReplies ==
  [ kind : {"http"}, status : ResourceStatuses \ {200, 404, 429},
    json : {FALSE}, retryAfter : {Null} ]
  \cup [ kind : {"http"}, status : {404}, json : BOOLEAN,
         retryAfter : {Null} ]
  \cup [ kind : {"http"}, status : {429}, json : {FALSE},
         retryAfter : RetryAfterHeaders ]
  \cup [ kind : {"http"}, status : {200}, json : BOOLEAN,
         retryAfter : {Null} ]
  \cup [ kind : {"neterr"}, status : {0}, json : {FALSE},
         retryAfter : {Null} ]

\* parseInt(s, 10): leading blanks, an optional sign, then the digits.
IsDigit(c) == c >= 48 /\ c <= 57
RECURSIVE DigitsValue(_, _)
DigitsValue(s, acc) ==
  IF s = << >> \/ ~IsDigit(Head(s)) THEN acc
  ELSE DigitsValue(Tail(s), acc * 10 + (Head(s) - 48))
RECURSIVE SkipBlanks(_)
SkipBlanks(s) ==
  IF s # << >> /\ Head(s) = 32 THEN SkipBlanks(Tail(s)) ELSE s
parseInt(s) ==
  LET t == SkipBlanks(s)
      signed == t # << >> /\ Head(t) \in { 43, 45 }
      u == IF signed THEN Tail(t) ELSE t
  IN IF u = << >> \/ ~IsDigit(Head(u)) THEN NaN
     ELSE IF signed /\ Head(t) = 45 THEN Num(0 - DigitsValue(u, 0))
     ELSE Num(DigitsValue(u, 0))

\* response.ok
ResponseOk(status) == status >= 200 /\ status <= 299


\* ------------------------------------------------------ the client's code
\* Faulty variant: getCredentials without the test of loginPromise.
getCredentialsNoJoin(tok, cfg, lp) ==
  IF Truthy(tok) THEN "cached"
  ELSE IF ~usesEmailAuth(cfg) THEN "config"
  ELSE "login"

\* Faulty variant: the configured token is used whenever there is one.
getCredentialsTokenFirst(tok, cfg, lp) ==
  IF Truthy(tok) THEN "cached"
  ELSE IF cfg.token # Null \/ ~usesEmailAuth(cfg) THEN "config"
  ELSE IF lp # 0 THEN "join"
  ELSE "login"

\* Faulty variant: getCredentials without the test of the cached token.
getCredentialsNoCache(tok, cfg, lp) ==
  IF ~usesEmailAuth(cfg) THEN "config"
  ELSE IF lp # 0 THEN "join"
  ELSE "login"

\* SkylightClient.getCredentials: which of its four paths a call takes,
\* given the cached token, the configuration and loginPromise (0 = null).
getCredentialsPath(tok, cfg, lp) ==
  IF Truthy(tok) THEN "cached"
  ELSE IF ~usesEmailAuth(cfg) THEN "config"
  ELSE IF lp # 0 THEN "join"
  ELSE "login"

\* Faulty variant: the joining caller drops the user id (as the client
\* did while loginPromise resolved to the token alone).
joinedCredentialsTokenOnly(result) ==
  [ token |-> result.token, userId |-> Null ]

\* What a caller that found loginPromise set returns once it settles.
joinedCredentials(result) ==
  [ token |-> result.token, userId |-> result.userId ]

\* Faulty variant: scheme basic encodes the token as delegated login does.
getAuthHeaderAlwaysEncoded(cfg, token, userId) ==
  IF cfg.authType = "basic" \/ (usesEmailAuth(cfg) /\ Truthy(userId))
    THEN BasicPrefix
           \o Base64((IF Truthy(userId) THEN userId ELSE << >>)
                       \o Colon \o token)
    ELSE BearerPrefix \o token

\* SkylightClient.getAuthHeader, after getCredentials returned.
getAuthHeader(cfg, token, userId) ==
  IF usesEmailAuth(cfg) /\ Truthy(userId)
    THEN BasicPrefix \o Base64(userId \o Colon \o token)
  ELSE IF cfg.authType = "basic" THEN BasicPrefix \o token
  ELSE BearerPrefix \o token

\* The thrown value of login() for a reply that is no usable 2xx.
loginError(reply) ==
  IF reply.kind = "neterr" THEN PlainError("TypeError", << "fetch failed" >>)
  ELSE IF reply.kind = "badbody"
    THEN PlainError("SyntaxError", << "Unexpected token in JSON" >>)
  ELSE IF reply.status = 401 THEN PlainError("Error", LoginInvalidMessage)
  ELSE PlainError("Error", << "Login failed: HTTP ", ToString(reply.status) >>)

\* Faulty variants: the retry condition without the isRetry test, and
\* without the test of the authentication mode.
retryOn401AnyAttempt(status, cfg, isRetry) ==
  status = 401 /\ usesEmailAuth(cfg)

retryOn401AnyMode(status, cfg, isRetry) ==
  status = 401 /\ ~isRetry

\* request(): the condition under which a failed response is retried.
retryOn401(status, cfg, isRetry) ==
  status = 401 /\ usesEmailAuth(cfg) /\ ~isRetry

\* Faulty variant: loginPromise is cleared after a successful login only.
loginPromiseOnSuccess(ok, lp) == IF ok THEN 0 ELSE lp

\* getCredentials: loginPromise after the finally clause of the caller
\* that started the login.
loginPromiseFinally(ok, lp) == 0

\* Faulty variant: the retry keeps the cache.
invalidateKept(v) == v

\* request(): the cached token and user id after the 401 that is retried.
invalidate(v) == Null

\* Faulty variant: every error status clears the cache.
clearedOnAnyError(status, v) == IF status >= 400 THEN Null ELSE v

\* Faulty variant: handleResponseError keeps the cache on 401.
clearedOn401Never(status, v) == v

\* handleResponseError: the cached token and user id after it ran.
clearedOn401(status, v) == IF status = 401 THEN Null ELSE v

\* Faulty variant: the 401 message does not depend on the mode.
handleResponseErrorGenericOnly(status, retryAfter, cfg) ==
  IF status = 401 THEN AuthenticationError(DefaultAuthMessage)
  ELSE IF status = 404 THEN NotFoundError("Resource")
  ELSE IF status = 429 THEN
    RateLimitError(IF Truthy(retryAfter) THEN parseInt(retryAfter)
                   ELSE Undefined)
  ELSE SkylightError(<< "HTTP ", ToString(status) >>, "HTTP_ERROR",
                     status, status >= 500)

\* Faulty variant: 404 is not told apart from the other statuses.
handleResponseErrorNo404(status, retryAfter, cfg) ==
  IF status = 401 THEN
    IF usesEmailAuth(cfg) THEN AuthenticationError(FrameIdHintMessage)
    ELSE AuthenticationError(DefaultAuthMessage)
  ELSE IF status = 429 THEN
    RateLimitError(IF Truthy(retryAfter) THEN parseInt(retryAfter)
                   ELSE Undefined)
  ELSE SkylightError(<< "HTTP ", ToString(status) >>, "HTTP_ERROR",
                     status, status >= 500)

\* Faulty variant: every generic failure is marked recoverable.
handleResponseErrorAllRecoverable(status, retryAfter, cfg) ==
  IF status = 401 THEN
    IF usesEmailAuth(cfg) THEN AuthenticationError(FrameIdHintMessage)
    ELSE AuthenticationError(DefaultAuthMessage)
  ELSE IF status = 404 THEN NotFoundError("Resource")
  ELSE IF status = 429 THEN
    RateLimitError(IF Truthy(retryAfter) THEN parseInt(retryAfter)
                   ELSE Undefined)
  ELSE SkylightError(<< "HTTP ", ToString(status) >>, "HTTP_ERROR",
                     status, TRUE)

\* handleResponseError: the value it throws (the text of the response
\* body that follows "HTTP <status>" is left out of the message).
handleResponseError(status, retryAfter, cfg) ==
  IF status = 401 THEN
    IF usesEmailAuth(cfg) THEN AuthenticationError(FrameIdHintMessage)
    ELSE AuthenticationError(DefaultAuthMessage)
  ELSE IF status = 404 THEN NotFoundError("Resource")
  ELSE IF status = 429 THEN
    RateLimitError(IF Truthy(retryAfter) THEN parseInt(retryAfter)
                   ELSE Undefined)
  ELSE SkylightError(<< "HTTP ", ToString(status) >>, "HTTP_ERROR",
                     status, status >= 500)


\* ------------------------------------------------------------------ state
VARIABLES
  config,              \* SkylightClient.config
  resolvedToken,       \* SkylightClient.resolvedToken
  resolvedUserId,      \* SkylightClient.resolvedUserId
  subscriptionStatus,  \* SkylightClient.subscriptionStatus ("none" = null)
  loginPromise,        \* SkylightClient.loginPromise: 0 = null, else the
                       \* number of the login it is the promise of
  nLogins,             \* number of calls of login() so far
  inflight,            \* logins whose POST /api/sessions is unanswered
  cachedLogin,         \* the login the cached token came from (0 = none)
  call,                \* per caller: its position in request()/initialize()
  event,               \* what the last step did: the login it started, the
                       \* reply it received (status and Retry-After of a
                       \* resource reply, status of a login reply), the
                       \* requests it sent and the calls that ended in it
  proc,                \* the server process: its environment, whether the
                       \* configuration was loaded, its exit code
  tool,                \* the tool handler that the MCP server is running
  run,                 \* a list, chore or reward tool handler in detail:
                       \* its arguments, its lookup, the calls it made of
                       \* the modifying endpoint functions, its result
  clock,               \* the host's clock: the instant and the host's zone
  util                 \* the last call of a date or time utility

clientVars ==
  << proc, config, resolvedToken, resolvedUserId, subscriptionStatus,
     loginPromise, nLogins, inflight, cachedLogin, call, event >>
toolVars == << tool, run >>
utilVars == << clock, util >>

vars == << clientVars, toolVars, utilVars >>

NoResult == [ kind |-> "none", error |-> NoError ]
Returned(kind) == [ kind |-> kind, error |-> NoError ]
Threw(e) == [ kind |-> "error", error |-> e ]

\* A caller that has not started.  pc, op, desc, isRetry, awaiting and
\* primary are its place in the code; nSent counts its resource requests,
\* nStarted the logins it started,
\* usedLogin is the login whose credential its last request carried,
\* rejected and doneAt401 are that login and the logins already answered
\* when its first request was answered 401.
IdleCall ==
  [ pc |-> "idle", op |-> "none", desc |-> "none", isRetry |-> FALSE,
    awaiting |-> 0, primary |-> FALSE, nSent |-> 0, nStarted |-> 0,
    usedLogin |-> 0, rejected |-> 0, doneAt401 |-> {}, result |-> NoResult ]
EndedCall == [ IdleCall EXCEPT !.pc = "done" ]

NoLogin == [ login |-> 0, cached |-> Null, pending |-> {}, email |-> FALSE ]
NoSend ==
  [ desc |-> "none", isRetry |-> FALSE, header |-> << >>, token |-> Null,
    userId |-> Null, login |-> 0, via |-> "none" ]
\* The cache and the login state as a step that received a resource
\* reply found them.
NoCache == [ token |-> Null, userId |-> Null, login |-> 0, promise |-> 0 ]
NoEvent ==
  [ by |-> 0, entered |-> FALSE, cached |-> Null, started |-> NoLogin,
    status |-> 0, retryAfter |-> Null, settled |-> 0, loginStatus |-> 0,
    before |-> NoCache,
    sends |-> [ d \in Dispatches |-> NoSend ],
    ended |-> [ d \in Dispatches |-> IdleCall ] ]

\* No tool handler is running.
NoTool ==
  [ pc |-> "idle", name |-> "none",
    outcome |-> [ kind |-> "none", error |-> NoError ],
    response |-> [ kind |-> "none", text |-> << >>, isError |-> FALSE ] ]

\* No list, chore or reward handler is running.
\* An argument that was left out is Undef (undefined); Null is null.
Undef == << -2 >>
\* The result of a lookup that found nothing (undefined).
NoResource ==
  [ id |-> Undef, label |-> << >>, kind |-> "none",
    default_grocery_list |-> FALSE ]
NoRun ==
  [ pc |-> "idle", name |-> "none", listId |-> Undef, listName |-> Undef,
    assignee |-> Undef, categoryId |-> Undef, lists |-> << >>,
    lookup |-> "none", looked |-> FALSE, found |-> NoResource,
    calls |-> << >>,
    response |-> [ kind |-> "none", isError |-> FALSE ] ]

\* The process runs with a configuration that was accepted.
NoProc ==
  [ pc |-> "running", exitCode |-> 0,
    env |-> [ email |-> Null, password |-> Null, token |-> Null,
              frameId |-> Null, authType |-> Null, timezone |-> Null ] ]

\* No utility has been called; the clock at the start of 2024 in UTC.
NoUtil ==
  [ fn |-> "none", input |-> << >>, arg |-> << >>, tz |-> 0,
    useTz |-> FALSE, out |-> << >>, out2 |-> << >> ]
NoClock == [ now |-> 0, offset |-> 0 ]

\* The parts of the state that a specification does not use stay as
\* they are after construction.
ToolUnused == tool = NoTool /\ run = NoRun
UtilUnused == clock = NoClock /\ util = NoUtil

Init ==
  /\ proc = NoProc
  /\ config \in Configs
  /\ resolvedToken = Null
  /\ resolvedUserId = Null
  /\ subscriptionStatus = "none"
  /\ loginPromise = 0
  /\ nLogins = 0
  /\ inflight = {}
  /\ cachedLogin = 0
  /\ call = [ d \in Dispatches |-> IdleCall ]
  /\ event = NoEvent
  /\ ToolUnused
  /\ UtilUnused

\* The request that caller r sends once it holds credentials cred,
\* obtained by path via.
sendOf(r, cred, via) ==
  [ desc |-> r.desc, isRetry |-> r.isRetry,
    header |-> getAuthHeader(config, cred.token, cred.userId),
    token |-> cred.token, userId |-> cred.userId,
    login |-> cred.login, via |-> via ]

\* The caller r holds credentials: request() builds the Authorization
\* header and issues the fetch; initialize() returns.
withCredentials(r, cred) ==
  IF r.op = "initialize"
    THEN [ r EXCEPT !.pc = "done", !.awaiting = 0, !.primary = FALSE,
                    !.result = Returned("void") ]
    ELSE [ r EXCEPT !.pc = "awaitResponse", !.awaiting = 0,
                    !.primary = FALSE, !.nSent = @ + 1,
                    !.usedLogin = cred.login ]

\* The credentials getCredentials returns without awaiting, on the
\* paths "cached" and "config".
immediateCredentials(path, tok, uid, from) ==
  IF path = "cached"
    THEN [ token |-> tok, userId |-> uid, login |-> from ]
    ELSE [ token |-> config.token, userId |-> Null, login |-> 0 ]

\* The caller r runs getCredentials with the cache holding (tok, uid),
\* up to its first await of the network.
getCredentials(r, tok, uid, from) ==
  LET path == getCredentialsPath(tok, config, loginPromise) IN
  IF path \in { "cached", "config" }
    THEN withCredentials(r, immediateCredentials(path, tok, uid, from))
  ELSE IF path = "join"
    THEN [ r EXCEPT !.pc = "awaitLogin", !.awaiting = loginPromise ]
  ELSE [ r EXCEPT !.pc = "awaitLogin", !.awaiting = nLogins + 1,
                  !.primary = TRUE, !.nStarted = @ + 1 ]

\* The login that run starts, if it starts one: performLogin() calls
\* login(), which issues POST /api/sessions before it first awaits.
performLogin(tok) ==
  IF getCredentialsPath(tok, config, loginPromise) = "login"
    THEN [ login |-> nLogins + 1, cached |-> tok, pending |-> inflight,
           email |-> usesEmailAuth(config) ]
    ELSE NoLogin

\* The calls that ended in a step leave their record in event.ended.
Live(c) ==
  [ d \in Dispatches |-> IF c[d].pc = "done" THEN EndedCall ELSE c[d] ]
Ended(c) ==
  [ d \in Dispatches |->
      IF c[d].pc = "done" /\ call[d].pc # "done" THEN c[d] ELSE IdleCall ]

\* A run of getCredentials by caller d (record r) with the cache at
\* (tok, uid), in a step that received status.
Enter(d, r, tok, uid, from, status) ==
  LET started == performLogin(tok)
      path == getCredentialsPath(tok, config, loginPromise)
      c == [ call EXCEPT ![d] = getCredentials(r, tok, uid, from) ]
  IN
  /\ resolvedToken' = tok
  /\ resolvedUserId' = uid
  /\ cachedLogin' = from
  /\ IF started.login # 0
       THEN /\ nLogins' = started.login
            /\ loginPromise' = started.login
            /\ inflight' = inflight \cup { started.login }
       ELSE UNCHANGED << nLogins, loginPromise, inflight >>
  /\ call' = Live(c)
  /\ event' =
       [ by |-> d, entered |-> TRUE, cached |-> tok, started |-> started,
         status |-> status, retryAfter |-> Null, settled |-> 0,
         loginStatus |-> 0,
         before |-> IF status = 0 THEN NoCache
                    ELSE [ token |-> resolvedToken, userId |-> resolvedUserId,
                           login |-> cachedLogin, promise |-> loginPromise ],
         sends |-> [ e \in Dispatches |->
           IF e = d /\ c[d].nSent > call[d].nSent
             THEN sendOf(r, immediateCredentials(path, tok, uid, from), path)
             ELSE NoSend ],
         ended |-> Ended(c) ]
  /\ UNCHANGED << config, subscriptionStatus, proc, toolVars, utilVars >>

\* ---------------------------------------------------------------- actions
\* Callers are numbered in the order in which they start.
Starts(d) ==
  /\ call[d].pc = "idle"
  /\ \A e \in Dispatches : e < d => call[e].pc # "idle"

\* A tool calls client.request(endpoint, options).
Request(d) ==
  /\ Starts(d)
  /\ Enter(d, [ call[d] EXCEPT !.op = "request", !.desc = DescriptorOf(d) ],
           resolvedToken, resolvedUserId, cachedLogin, 0)

\* initializeClient() calls client.initialize().
Initialize(d) ==
  /\ Starts(d)
  /\ Enter(d, [ call[d] EXCEPT !.op = "initialize" ],
           resolvedToken, resolvedUserId, cachedLogin, 0)

\* The fetch of login l settles with reply: performLogin's promise
\* settles, the caller that started the login stores the result and
\* clears loginPromise, and every caller awaiting the promise goes on.
LoginResponse(l, reply) ==
  LET ok == reply.kind = "ok"
      resumed(d) == call[d].pc = "awaitLogin" /\ call[d].awaiting = l
      credOf(d) ==
        IF call[d].primary
          THEN [ token |-> reply.token, userId |-> reply.userId,
                 login |-> l ]
          ELSE [ token |-> joinedCredentials(reply).token,
                 userId |-> joinedCredentials(reply).userId, login |-> l ]
      c == [ d \in Dispatches |->
             IF ~resumed(d) THEN call[d]
             ELSE IF ok THEN withCredentials(call[d], credOf(d))
             ELSE [ call[d] EXCEPT !.pc = "done", !.awaiting = 0,
                                   !.primary = FALSE,
                                   !.result = Threw(loginError(reply)) ] ]
  IN
  /\ l \in inflight
  /\ inflight' = inflight \ { l }
  /\ subscriptionStatus' =
       IF ok THEN reply.subscriptionStatus ELSE subscriptionStatus
  /\ IF \E d \in Dispatches : resumed(d) /\ call[d].primary
       THEN /\ resolvedToken' = IF ok THEN reply.token ELSE resolvedToken
            /\ resolvedUserId' = IF ok THEN reply.userId ELSE resolvedUserId
            /\ cachedLogin' = IF ok THEN l ELSE cachedLogin
            /\ loginPromise' = loginPromiseFinally(ok, loginPromise)
       ELSE UNCHANGED << resolvedToken, resolvedUserId, cachedLogin,
                         loginPromise >>
  /\ call' = Live(c)
  /\ event' =
       [ by |-> 0, entered |-> FALSE, cached |-> Null, started |-> NoLogin,
         status |-> 0, retryAfter |-> Null, settled |-> l,
         loginStatus |-> reply.status, before |-> NoCache,
         sends |-> [ d \in Dispatches |->
           IF resumed(d) /\ c[d].nSent > call[d].nSent
             THEN sendOf(call[d], credOf(d),
                         IF call[d].primary THEN "login" ELSE "join")
             ELSE NoSend ],
         ended |-> Ended(c) ]
  /\ UNCHANGED << config, nLogins, proc, toolVars, utilVars >>

\* The fetch of caller d's resource request settles with reply.
Response(d, reply) ==
  LET status == reply.status
      finish(res, tok, uid) ==
        LET c == [ call EXCEPT ![d] = [ @ EXCEPT !.pc = "done",
                                                 !.result = res ] ] IN
        /\ resolvedToken' = tok
        /\ resolvedUserId' = uid
        /\ cachedLogin' = IF tok = Null THEN 0 ELSE cachedLogin
        /\ call' = Live(c)
        /\ event' = [ NoEvent EXCEPT !.by = d, !.status = status,
                                     !.retryAfter = reply.retryAfter,
                                     !.before =
                                       [ token |-> resolvedToken,
                                         userId |-> resolvedUserId,
                                         login |-> cachedLogin,
                                         promise |-> loginPromise ],
                                     !.ended = Ended(c) ]
        /\ UNCHANGED << config, subscriptionStatus, nLogins,
                        loginPromise, inflight, proc, toolVars, utilVars >>
  IN
  /\ call[d].pc = "awaitResponse"
  /\ IF reply.kind = "neterr" THEN
       finish(Threw(PlainError("TypeError", << "fetch failed" >>)),
              resolvedToken, resolvedUserId)
     ELSE IF ResponseOk(status) THEN
       finish(IF status = 304 THEN Returned("empty")
              ELSE IF reply.json THEN Returned("json")
              ELSE Threw(PlainError("SyntaxError",
                                    << "Unexpected token in JSON" >>)),
              resolvedToken, resolvedUserId)
     ELSE IF retryOn401(status, config, call[d].isRetry) THEN
       Enter(d, [ call[d] EXCEPT !.isRetry = TRUE,
                    !.rejected = call[d].usedLogin,
                    !.doneAt401 = { k \in 1..nLogins : k \notin inflight } ],
             invalidate(resolvedToken), invalidate(resolvedUserId),
             IF invalidate(resolvedToken) = Null THEN 0 ELSE cachedLogin,
             status)
     ELSE
       finish(Threw(handleResponseError(status, reply.retryAfter, config)),
              clearedOn401(status, resolvedToken),
              clearedOn401(status, resolvedUserId))

Next ==
  \/ \E d \in Dispatches : Request(d)
  \/ \E d \in Dispatches : Initialize(d)
  \/ \E l \in 1..nLogins, reply \in LoginReplies : LoginResponse(l, reply)
  \/ \E d \in Dispatches, reply \in ResourceReplies : Response(d, reply)

Spec == Init /\ [][Next]_vars


\* --------------------------------------------------------- the tool layer
\* The client's part of the state while another layer is examined.
ClientUnused ==
  /\ proc = NoProc
  /\ config = [ email |-> FALSE, password |-> FALSE, token |-> << 116 >>,
                authType |-> "bearer" ]
  /\ resolvedToken = Null
  /\ resolvedUserId = Null
  /\ subscriptionStatus = "none"
  /\ loginPromise = 0
  /\ nLogins = 0
  /\ inflight = {}
  /\ cachedLogin = 0
  /\ call = [ d \in Dispatches |-> IdleCall ]
  /\ event = NoEvent

ConfigurationError(message) ==
  [ SkylightError(message, "CONFIG_ERROR", 0, TRUE)
      EXCEPT !.name = "ConfigurationError" ]

ParseError(message) ==
  [ SkylightError(message, "PARSE_ERROR", 0, FALSE)
      EXCEPT !.name = "ParseError" ]

\* A thrown value that is no Error: kind is its typeof, text is what
\* String(value) gives.
NonError(kind, text) ==
  [ name |-> kind, message |-> << text >>, code |-> "none",
    statusCode |-> 0, recoverable |-> FALSE ]

\* error instanceof Error
IsError(e) ==
  IsSkylightError(e) \/ e.name \in { "Error", "TypeError", "SyntaxError" }

\* formatErrorForMcp: the text for a caught value, by the first class in
\* the chain of instanceof tests that the value belongs to.
formatErrorForMcp(error) ==
  IF error.name = "AuthenticationError"
    THEN << "Authentication Error: " >> \o error.message
           \o << "\n\nYour Skylight token may have expired. To fix this:",
                 "\n1. Open the Skylight app on your device",
                 "\n2. Capture fresh API traffic using a proxy tool",
                 "\n3. Update your SKYLIGHT_TOKEN environment variable",
                 "\n\nSee the auth documentation for detailed steps." >>
  ELSE IF error.name = "NotFoundError"
    THEN << "Not Found: " >> \o error.message
           \o << "\n\nThis could mean:",
                 "\n- The requested item doesn't exist",
                 "\n- Your frame ID is incorrect",
                 "\n- The item was deleted from Skylight" >>
  ELSE IF error.name = "RateLimitError"
    THEN << "Rate Limited: " >> \o error.message
           \o << "\n\nThe Skylight API is temporarily limiting requests. Please wait a moment and try again." >>
  ELSE IF error.name = "ConfigurationError"
    THEN << "Configuration Error: " >> \o error.message
           \o << "\n\nPlease check your environment variables are set correctly." >>
  ELSE IF IsSkylightError(error)
    THEN << "Skylight Error: " >> \o error.message
  ELSE IF IsError(error) THEN << "Error: " >> \o error.message
  ELSE << "Error: " >> \o error.message

\* The tools that the server registers: those of tools/calendar.ts,
\* chores.ts, family.ts, lists.ts, rewards.ts and tasks.ts, the meal
\* tools and the avatar, colour and task-box tools.
Tools ==
  { "get_calendar_events", "get_source_calendars", "create_calendar_event",
    "update_calendar_event", "delete_calendar_event",
    "get_chore_categories", "get_chores", "create_chore", "update_chore",
    "delete_chore",
    "get_family_members", "get_frame_info", "get_devices",
    "get_lists", "get_list_items", "create_list", "update_list",
    "delete_list", "create_list_item", "update_list_item",
    "delete_list_item",
    "get_rewards", "get_reward_points", "create_reward", "update_reward",
    "delete_reward", "redeem_reward", "unredeem_reward",
    "create_task",
    "get_meal_categories", "get_recipes", "get_recipe", "create_recipe",
    "update_recipe", "delete_recipe", "add_recipe_to_grocery_list",
    "get_meal_sittings", "create_meal_sitting",
    "get_avatars", "get_colors",
    "get_tasks", "update_task", "delete_task" }

\* The tools whose handler looks a name up (a list, a family member, a
\* reward) and returns an error-flagged text itself when there is none.
LookupTools ==
  { "create_chore", "update_chore", "get_list_items", "update_list",
    "delete_list", "create_list_item", "create_reward", "redeem_reward" }

\* What the credential resolver, the dispatcher, an endpoint wrapper or
\* any code under them can throw into a handler.
ThrownValues ==
  { AuthenticationError(DefaultAuthMessage),
    AuthenticationError(FrameIdHintMessage),
    AuthenticationError(<< "Email and password are required for login" >>),
    NotFoundError("Resource"),
    RateLimitError(Num(30)), RateLimitError(Undefined),
    SkylightError(<< "HTTP ", "500" >>, "HTTP_ERROR", 500, TRUE),
    SkylightError(<< "HTTP ", "400" >>, "HTTP_ERROR", 400, FALSE),
    ConfigurationError(<< "Missing configuration" >>),
    ParseError(<< "Unexpected API response format" >>),
    PlainError("Error", LoginInvalidMessage),
    PlainError("Error", << "Login failed: HTTP ", "500" >>),
    PlainError("TypeError", << "fetch failed" >>),
    PlainError("SyntaxError", << "Unexpected token in JSON" >>),
    NonError("string", "boom"), NonError("number", "42"),
    NonError("undefined", "undefined"), NonError("object", "null"),
    NonError("object", "[object Object]") }

\* How the operation under a handler ends.
Outcomes ==
  { [ kind |-> "returns", error |-> NoError ],
    [ kind |-> "lookupMiss", error |-> NoError ] }
  \cup { [ kind |-> "throws", error |-> e ] : e \in ThrownValues }

TextResult(text, isError) ==
  [ kind |-> "result", text |-> text, isError |-> isError ]
Exception(e) ==
  [ kind |-> "exception", text |-> e.message, isError |-> FALSE ]

\* Faulty variant: a handler whose catch clause renders Errors only and
\* throws every other value again.
toolHandlerErrorsOnly(name, outcome) ==
  IF outcome.kind = "returns"
    THEN TextResult(<< name, ": done" >>, FALSE)
  ELSE IF outcome.kind = "lookupMiss"
    THEN TextResult(<< name, ": could not find the named item" >>, TRUE)
  ELSE IF IsError(outcome.error)
    THEN TextResult(formatErrorForMcp(outcome.error), TRUE)
  ELSE Exception(outcome.error)

\* A tool handler: the whole body is one try block; the operation's value
\* is rendered as text (the wording differs by tool and is shortened
\* here), and the catch clause renders any thrown value with
\* formatErrorForMcp and sets isError.
toolHandler(name, outcome) ==
  IF outcome.kind = "returns"
    THEN TextResult(<< name, ": done" >>, FALSE)
  ELSE IF outcome.kind = "lookupMiss"
    THEN TextResult(<< name, ": could not find the named item" >>, TRUE)
  ELSE TextResult(formatErrorForMcp(outcome.error), TRUE)

InitTool ==
  /\ ClientUnused
  /\ UtilUnused
  /\ tool = NoTool
  /\ run = NoRun

\* The server calls the handler of tool t, which calls the operations
\* under it and awaits them.
ToolCall(t) ==
  /\ tool.pc = "idle"
  /\ tool' = [ NoTool EXCEPT !.pc = "awaitOperation", !.name = t ]
  /\ UNCHANGED << clientVars, utilVars, run >>

\* The operations under the handler end with outcome o, and the handler
\* returns (or throws) what it makes of it.
ToolSettles(o) ==
  /\ tool.pc = "awaitOperation"
  /\ o.kind = "lookupMiss" => tool.name \in LookupTools
  /\ tool' = [ tool EXCEPT !.pc = "done", !.outcome = o,
                           !.response = toolHandler(tool.name, o) ]
  /\ UNCHANGED << clientVars, utilVars, run >>

NextTool ==
  \/ \E t \in Tools : ToolCall(t)
  \/ \E o \in Outcomes : ToolSettles(o)

ToolSpec == InitTool /\ [][NextTool]_vars


\* ------------------------------------------------- dates and the calendar
\* A calendar date is a record y, m, d; an instant (the value of a Date)
\* is a number of hours since 2024-01-01T00:00Z, a Monday; a time zone is
\* its offset from UTC in hours (local time = UTC + offset; daylight
\* saving changes are left out).  Date strings are sequences of
\* character codes, as the tokens are.
IsLeapYear(y) == (y % 4 = 0 /\ y % 100 # 0) \/ y % 400 = 0
DaysInMonth(y, m) ==
  IF m = 2 THEN (IF IsLeapYear(y) THEN 29 ELSE 28)
  ELSE IF m \in { 4, 6, 9, 11 } THEN 30 ELSE 31
DaysInYear(y) == IF IsLeapYear(y) THEN 366 ELSE 365

RECURSIVE DaysBeforeYear(_)
DaysBeforeYear(y) ==
  IF y <= 2024 THEN 0 ELSE DaysBeforeYear(y - 1) + DaysInYear(y - 1)
RECURSIVE DaysBeforeMonth(_, _)
DaysBeforeMonth(y, m) ==
  IF m <= 1 THEN 0 ELSE DaysBeforeMonth(y, m - 1) + DaysInMonth(y, m - 1)

\* MakeDay of the Date object: the day number of year y, month m and day
\* of month d, where d may lie past the end of the month.
MakeDay(y, m, d) == DaysBeforeYear(y) + DaysBeforeMonth(y, m) + d - 1

\* The calendar date of a day number.
RECURSIVE MonthOfDays(_, _, _)
MonthOfDays(n, y, m) ==
  IF n >= DaysInMonth(y, m) THEN MonthOfDays(n - DaysInMonth(y, m), y, m + 1)
  ELSE [ y |-> y, m |-> m, d |-> n + 1 ]
RECURSIVE YearOfDays(_, _)
YearOfDays(n, y) ==
  IF n >= DaysInYear(y) THEN YearOfDays(n - DaysInYear(y), y + 1)
  ELSE MonthOfDays(n, y, 1)
CivilFromDays(n) == YearOfDays(n, 2024)

\* Number.prototype.toString and String.prototype.padStart(width, "0").
RECURSIVE NumberToString(_)
NumberToString(n) ==
  IF n < 10 THEN << 48 + n >>
  ELSE NumberToString(n \div 10) \o << 48 + (n % 10) >>
RECURSIVE padStart(_, _)
padStart(s, width) ==
  IF Len(s) >= width THEN s ELSE padStart(<< 48 >> \o s, width)

\* "YYYY-MM-DD" of a calendar date, and the fields of such a string.
FormatDate(date) ==
  padStart(NumberToString(date.y), 4) \o << 45 >>
    \o padStart(NumberToString(date.m), 2) \o << 45 >>
    \o padStart(NumberToString(date.d), 2)
DateFields(s) ==
  [ y |-> DigitsValue(SubSeq(s, 1, 4), 0),
    m |-> DigitsValue(SubSeq(s, 6, 7), 0),
    d |-> DigitsValue(SubSeq(s, 9, 10), 0) ]

\* new Date(dateStr + "T00:00:00"): a date and time without zone is read
\* as local time of the host.
DateFromLocalMidnight(dateStr, offset) ==
  LET f == DateFields(dateStr) IN MakeDay(f.y, f.m, f.d) * 24 - offset

\* date.setDate(date.getDate() + days): the day of the month is taken
\* and set in the host's local time, the time of day stays.
setDate(t, offset, days) ==
  LET local == t + offset
      f == CivilFromDays(local \div 24)
  IN MakeDay(f.y, f.m, f.d + days) * 24 + (local % 24) - offset

\* date.getDay(): the weekday in the host's local time, 0 = Sunday.
getDay(t, offset) == (((t + offset) \div 24) + 1) % 7

\* date.toISOString().split("T")[0]: the date in UTC.
toISODate(t) == FormatDate(CivilFromDays(t \div 24))

\* date.toLocaleDateString("en-CA", { timeZone }): the date in the zone.
toLocaleDateString(t, tz) == FormatDate(CivilFromDays((t + tz) \div 24))

\* addDays of the calendar endpoints.
addDays(dateStr, days, offset) ==
  toISODate(setDate(DateFromLocalMidnight(dateStr, offset), offset, days))

\* getCalendarEvents: the date_min and date_max parameters it sends.
getCalendarEvents(dateMin, dateMax, offset) ==
  [ date_min |-> dateMin, date_max |-> addDays(dateMax, 1, offset) ]

getTodayDate(useTz, tz, clk) ==
  IF useTz THEN toLocaleDateString(clk.now, tz) ELSE toISODate(clk.now)

getDateOffset(n, useTz, tz, clk) ==
  LET date == setDate(clk.now, clk.offset, n) IN
  IF useTz THEN toLocaleDateString(date, tz) ELSE toISODate(date)

\* The words "today", "tomorrow" and "yesterday".
TODAY == << 116, 111, 100, 97, 121 >>
TOMORROW == << 116, 111, 109, 111, 114, 114, 111, 119 >>
YESTERDAY == << 121, 101, 115, 116, 101, 114, 100, 97, 121 >>

\* String.prototype.toLowerCase and trim.
toLowerCase(s) ==
  [ i \in 1..Len(s) |-> IF s[i] >= 65 /\ s[i] <= 90 THEN s[i] + 32 ELSE s[i] ]
RECURSIVE trimStart(_)
trimStart(s) ==
  IF s # << >> /\ Head(s) \in { 9, 10, 13, 32 }
    THEN trimStart(Tail(s)) ELSE s
RECURSIVE trimEnd(_)
trimEnd(s) ==
  IF s # << >> /\ s[Len(s)] \in { 9, 10, 13, 32 }
    THEN trimEnd(SubSeq(s, 1, Len(s) - 1)) ELSE s
trim(s) == trimEnd(trimStart(s))

\* The array days of parseDate, and days.indexOf (-1 = not found).
days ==
  << << 115, 117, 110, 100, 97, 121 >>,
     << 109, 111, 110, 100, 97, 121 >>,
     << 116, 117, 101, 115, 100, 97, 121 >>,
     << 119, 101, 100, 110, 101, 115, 100, 97, 121 >>,
     << 116, 104, 117, 114, 115, 100, 97, 121 >>,
     << 102, 114, 105, 100, 97, 121 >>,
     << 115, 97, 116, 117, 114, 100, 97, 121 >> >>
indexOf(array, x) ==
  IF \E i \in 1..Len(array) : array[i] = x
    THEN (CHOOSE i \in 1..Len(array) : array[i] = x) - 1
    ELSE -1

\* parseDate: the days to add for a weekday name.
daysUntil(dayIndex, todayDay) ==
  IF dayIndex - todayDay <= 0 THEN dayIndex - todayDay + 7
  ELSE dayIndex - todayDay

\* parseDate for "today", "tomorrow", "yesterday" and the weekday names;
\* the inputs examined here take none of its later branches (YYYY-MM-DD,
\* MM/DD/YYYY, new Date(input)), which is the last alternative here.
parseDate(input, useTz, tz, clk) ==
  LET lower == trim(toLowerCase(input))
      dayIndex == indexOf(days, lower)
  IN
  IF lower = TODAY THEN getTodayDate(useTz, tz, clk)
  ELSE IF lower = TOMORROW THEN getDateOffset(1, useTz, tz, clk)
  ELSE IF lower = YESTERDAY THEN getDateOffset(-1, useTz, tz, clk)
  ELSE IF dayIndex # -1
    THEN getDateOffset(daysUntil(dayIndex, getDay(clk.now, clk.offset)),
                       useTz, tz, clk)
  ELSE input

\* ------------------------------------------------------------ input domains
\* The host's zone and the zone passed as timezone, as offsets from UTC:
\* Los Angeles, New York (the default of SKYLIGHT_TIMEZONE), UTC, Berlin,
\* Tokyo, Sydney.
HostOffsets == { -8, 0, 1, 10 }
Timezones == { -8, -5, 0, 9 }
\* The instants of the clock: every day of the week from Monday
\* 2025-06-16 and of the week from Thursday 2024-12-26, at four hours.
Clocks ==
  [ now : { d * 24 + h :
              d \in { MakeDay(2025, 6, 16) + i : i \in 0..6 }
                      \cup { MakeDay(2024, 12, 26) + i : i \in 0..6 },
              h \in { 2, 9, 15, 22 } },
    offset : HostOffsets ]

\* Inputs of parseDate: each weekday name in lower case, capitalised, and
\* in upper case between blanks; "today" and "Tomorrow".
DateInputs ==
  { days[i] : i \in 1..7 }
    \cup { << days[i][1] - 32 >> \o Tail(days[i]) : i \in 1..7 }
    \cup { << 32 >> \o [ k \in 1..Len(days[i]) |-> days[i][k] - 32 ]
             \o << 32 >> : i \in 1..7 }
    \cup { TODAY, << 84 >> \o Tail(TOMORROW) }

\* End dates of calendar queries: the days around the ends of months and
\* years of 2024 (a leap year) and 2025, and around 2025-06-15.
CalendarDates ==
  { FormatDate(CivilFromDays(n)) :
      n \in { k \in { MakeDay(y, m, 1) + i : y \in { 2024, 2025 },
                                             m \in 1..12, i \in -2..1 } :
                k >= 1 }
            \cup { MakeDay(2025, 6, 14) + i : i \in 0..3 } }

\* The utilities keep no state: a behaviour is one call, at one instant
\* of one host.
InitDate ==
  /\ ClientUnused
  /\ ToolUnused
  /\ clock \in Clocks
  /\ util = NoUtil

\* A tool calls getCalendarEvents({ dateMin, dateMax }).
GetCalendarEvents ==
  /\ util.fn = "none"
  /\ \E dateMax \in CalendarDates :
       \E dateMin \in { dateMax, FormatDate(CivilFromDays(1)) } :
         LET sent == getCalendarEvents(dateMin, dateMax, clock.offset) IN
         util' = [ NoUtil EXCEPT !.fn = "getCalendarEvents",
                                 !.input = dateMin, !.arg = dateMax,
                                 !.out = sent.date_min,
                                 !.out2 = sent.date_max ]
  /\ UNCHANGED << clientVars, toolVars, clock >>

\* A tool calls parseDate(input, timezone).
ParseDateInZone ==
  /\ util.fn = "none"
  /\ \E input \in DateInputs, tz \in Timezones :
       util' = [ NoUtil EXCEPT !.fn = "parseDate", !.input = input,
                               !.useTz = TRUE, !.tz = tz,
                               !.out = parseDate(input, TRUE, tz, clock) ]
  /\ UNCHANGED << clientVars, toolVars, clock >>

\* A caller calls parseDate(input), without a zone.
ParseDate ==
  /\ util.fn = "none"
  /\ \E input \in DateInputs :
       util' = [ NoUtil EXCEPT !.fn = "parseDate", !.input = input,
                               !.out = parseDate(input, FALSE, 0, clock) ]
  /\ UNCHANGED << clientVars, toolVars, clock >>

NextDate ==
  \/ GetCalendarEvents
  \/ ParseDateInZone
  \/ ParseDate

DateSpec == InitDate /\ [][NextDate]_vars


\* ---------------------------------------------------------- times of day
\* The common start of the two patterns of parseTime, /^(\d{1,2}):(\d{2})/:
\* one or two digits, a colon and two digits; rest is what follows.
MatchClock(s) ==
  LET n == IF Len(s) >= 2 /\ IsDigit(s[1]) /\ IsDigit(s[2]) THEN 2
           ELSE IF Len(s) >= 1 /\ IsDigit(s[1]) THEN 1 ELSE 0
      ok == /\ n > 0
            /\ Len(s) >= n + 3
            /\ s[n + 1] = 58
            /\ IsDigit(s[n + 2]) /\ IsDigit(s[n + 3])
  IN [ ok |-> ok,
       hours |-> IF ok THEN SubSeq(s, 1, n) ELSE << >>,
       minutes |-> IF ok THEN SubSeq(s, n + 2, n + 3) ELSE << >>,
       rest |-> IF ok THEN SubSeq(s, n + 4, Len(s)) ELSE << >> ]

toUpperCase(s) ==
  [ i \in 1..Len(s) |-> IF s[i] >= 97 /\ s[i] <= 122 THEN s[i] - 32 ELSE s[i] ]
\* The periods "AM" and "PM".
Periods == [ AM |-> << 65, 77 >>, PM |-> << 80, 77 >> ]

\* Faulty variant: 12 AM keeps its hour.
parseTimeNoMidnight(input) ==
  LET trimmed == trim(input)
      m == MatchClock(trimmed)
      period == toUpperCase(trimStart(m.rest))
      h0 == DigitsValue(m.hours, 0)
      h == IF period = Periods.PM /\ h0 # 12 THEN h0 + 12 ELSE h0
  IN
  IF m.ok /\ m.rest = << >>
    THEN padStart(m.hours, 2) \o << 58 >> \o m.minutes
  ELSE IF m.ok /\ period \in { Periods.AM, Periods.PM }
    THEN padStart(NumberToString(h), 2) \o << 58 >> \o m.minutes
  ELSE trimmed

\* parseTime: a 24-hour time is padded, a 12-hour time with AM or PM is
\* converted, anything else is returned trimmed.
parseTime(input) ==
  LET trimmed == trim(input)
      m == MatchClock(trimmed)
      period == toUpperCase(trimStart(m.rest))
      h0 == DigitsValue(m.hours, 0)
      h == IF period = Periods.PM /\ h0 # 12 THEN h0 + 12
           ELSE IF period = Periods.AM /\ h0 = 12 THEN 0
           ELSE h0
  IN
  IF m.ok /\ m.rest = << >>
    THEN padStart(m.hours, 2) \o << 58 >> \o m.minutes
  ELSE IF m.ok /\ period \in { Periods.AM, Periods.PM }
    THEN padStart(NumberToString(h), 2) \o << 58 >> \o m.minutes
  ELSE trimmed

\* The ways of writing a 12-hour time: the hour with or without a
\* leading zero, a blank or nothing before the period, the period in any
\* letter case.
HourTexts(h) ==
  { NumberToString(h), padStart(NumberToString(h), 2) }
PeriodTexts(pm) ==
  LET p == IF pm THEN 80 ELSE 65 IN
  { << p, 77 >>, << p + 32, 109 >>, << p, 109 >>, << p + 32, 77 >> }
\* Other inputs: 24-hour times and a text that is no time.
OtherTimes ==
  { << 49, 52, 58, 51, 48 >>, << 57, 58, 48, 53 >>,
    << 32, 48, 58, 48, 48, 32 >>, << 110, 111, 111, 110 >> }

InitTime ==
  /\ ClientUnused
  /\ ToolUnused
  /\ UtilUnused

\* A tool calls parseTime with the 12-hour time h:mm AM or PM, written as
\* hours, ":", two digits of minutes, a separator and the period.
ParseTime12 ==
  /\ util.fn = "none"
  /\ \E h \in 1..12, mm \in 0..59, pm \in BOOLEAN :
       \E hours \in HourTexts(h), sep \in { << 32 >>, << >> },
          period \in PeriodTexts(pm) :
         LET input == hours \o << 58 >> \o padStart(NumberToString(mm), 2)
                        \o sep \o period
         IN util' = [ NoUtil EXCEPT !.fn = "parseTime", !.input = input,
                                    !.arg = << h, mm, IF pm THEN 1 ELSE 0 >>,
                                    !.out = parseTime(input) ]
  /\ UNCHANGED << clientVars, toolVars, clock >>

\* A tool calls parseTime with another input.
ParseTime ==
  /\ util.fn = "none"
  /\ \E input \in OtherTimes :
       util' = [ NoUtil EXCEPT !.fn = "parseTime", !.input = input,
                               !.out = parseTime(input) ]
  /\ UNCHANGED << clientVars, toolVars, clock >>

NextTime ==
  \/ ParseTime12
  \/ ParseTime

TimeSpec == InitTime /\ [][NextTime]_vars


\* ------------------------------------------------------- configuration
\* Values of the environment variables: Null = not set.
\* The values of the authType enum.
AuthTypes ==
  [ bearer |-> << 98, 101, 97, 114, 101, 114 >>,
    basic |-> << 98, 97, 115, 105, 99 >> ]
Envs ==
  [ email : { Null, << 97, 98 >>, << 97, 64, 98, 46, 99 >> }, \* "ab", "a@b.c"
    password : { Null, << >>, << 112 >> },                    \* "", "p"
    token : { Null, << >>, << 116 >> },                       \* "", "t"
    frameId : { Null, << >>, << 102 >> },                     \* "", "f"
    authType : { Null, AuthTypes.basic,
                 << 66, 97, 115, 105, 99 >> },                \* "Basic"
    timezone : { Null, << 85, 84, 67 >> } ]                   \* "UTC"

\* z.string().email(): one "@" after a local part, and a domain with a
\* dot inside it.
IsEmail(s) ==
  \E i \in 2..(Len(s) - 3) :
    /\ s[i] = 64
    /\ \A k \in 1..Len(s) : s[k] = 64 => k = i
    /\ s[i + 1] # 46
    /\ \E j \in (i + 2)..(Len(s) - 1) : s[j] = 46

\* The object that loadConfig hands to ConfigSchema.safeParse.
ConfigInput(env) ==
  [ email |-> env.email, password |-> env.password, token |-> env.token,
    frameId |-> env.frameId,
    authType |-> IF Truthy(env.authType) THEN env.authType ELSE AuthTypes.bearer,
    timezone |-> IF Truthy(env.timezone) THEN env.timezone
                 ELSE << 65, 109, 101, 114, 105, 99, 97, 47, 78, 101, 119,
                         95, 89, 111, 114, 107 >> ]

\* Faulty variant: the schema without the frame id.
ConfigSchemaNoFrameId(data) ==
  /\ data.email # Null => IsEmail(data.email)
  /\ data.password # Null => Len(data.password) >= 1
  /\ data.token # Null => Len(data.token) >= 1
  /\ data.authType \in { AuthTypes.bearer, AuthTypes.basic }
  /\ (Truthy(data.email) /\ Truthy(data.password)) \/ Truthy(data.token)

\* ConfigSchema: the fields, then the refinement.
ConfigSchema(data) ==
  /\ data.email # Null => IsEmail(data.email)
  /\ data.password # Null => Len(data.password) >= 1
  /\ data.token # Null => Len(data.token) >= 1
  /\ data.authType \in { AuthTypes.bearer, AuthTypes.basic }
  /\ data.frameId # Null /\ Len(data.frameId) >= 1
  /\ (Truthy(data.email) /\ Truthy(data.password)) \/ Truthy(data.token)

\* loadConfig: the parsed configuration, or process.exit(1).
loadConfig(env) ==
  IF ConfigSchema(ConfigInput(env))
    THEN [ success |-> TRUE, data |-> ConfigInput(env), exitCode |-> 0 ]
    ELSE [ success |-> FALSE, exitCode |-> 1 ]

\* What the credential logic reads of a loaded configuration.
ClientConfig(data) ==
  [ email |-> Truthy(data.email), password |-> Truthy(data.password),
    token |-> data.token,
    authType |-> IF data.authType = AuthTypes.basic THEN "basic" ELSE "bearer" ]

\* No client has been constructed.
InitConfig ==
  /\ proc \in [ pc : { "start" }, env : Envs, exitCode : { 0 } ]
  /\ config = [ email |-> FALSE, password |-> FALSE, token |-> Null,
                authType |-> "bearer" ]
  /\ resolvedToken = Null
  /\ resolvedUserId = Null
  /\ subscriptionStatus = "none"
  /\ loginPromise = 0
  /\ nLogins = 0
  /\ inflight = {}
  /\ cachedLogin = 0
  /\ call = [ d \in Dispatches |-> IdleCall ]
  /\ event = NoEvent
  /\ ToolUnused
  /\ UtilUnused

\* getClient() constructs the SkylightClient, whose constructor calls
\* getConfig(): the first call loads the configuration or ends the process.
GetClient ==
  /\ proc.pc = "start"
  /\ LET result == loadConfig(proc.env) IN
     /\ proc' = [ proc EXCEPT !.pc = IF result.success THEN "running"
                                     ELSE "exited",
                              !.exitCode = result.exitCode ]
     /\ config' = IF result.success THEN ClientConfig(result.data)
                  ELSE config
  /\ UNCHANGED << resolvedToken, resolvedUserId, subscriptionStatus,
                  loginPromise, nLogins, inflight, cachedLogin, call, event,
                  toolVars, utilVars >>

\* The methods of the client run once it is constructed.
ClientRuns ==
  /\ proc.pc = "running"
  /\ Next

NextConfig ==
  \/ GetClient
  \/ ClientRuns

ConfigSpec == InitConfig /\ [][NextConfig]_vars


\* ------------------------------------------------------------- the lists
\* JavaScript truthiness of a value of type string | null | undefined.
Given(s) == s \notin { Undef, Null, << >> }

\* String.prototype.includes.
includes(s, sub) ==
  \E i \in 0..(Len(s) - Len(sub)) : SubSeq(s, i + 1, i + Len(sub)) = sub

\* The lists of the household: "Xab" (1), "ab" (2, the default grocery
\* list) and "B" (3, a to-do list), in any order the server returns them.
ListPool ==
  { [ id |-> << 49 >>, label |-> << 88, 97, 98 >>, kind |-> "shopping",
      default_grocery_list |-> FALSE ],
    [ id |-> << 50 >>, label |-> << 97, 98 >>, kind |-> "shopping",
      default_grocery_list |-> TRUE ],
    [ id |-> << 51 >>, label |-> << 66 >>, kind |-> "to_do",
      default_grocery_list |-> FALSE ] }

\* Array.prototype.find: the first element of array in the set hits.
find(array, hits) ==
  IF \E i \in 1..Len(array) : array[i] \in hits
    THEN array[CHOOSE i \in 1..Len(array) :
                 /\ array[i] \in hits
                 /\ \A k \in 1..(i - 1) : array[k] \notin hits]
    ELSE NoResource

\* findListByName, applied to the lists that getLists returned.
findListByName(name, lists) ==
  find(lists, { l \in ListPool :
                  includes(toLowerCase(l.label), toLowerCase(name)) })

\* findListByType, applied to the lists that getLists returned.
findListByType(kind, preferDefault, lists) ==
  LET filtered == { l \in ListPool : l.kind = kind }
      defaultList ==
        find(lists, { l \in filtered : l.default_grocery_list })
  IN
  IF preferDefault /\ kind = "shopping" /\ defaultList # NoResource
    THEN defaultList
    ELSE find(lists, filtered)

\* Faulty variant: the name is tried before the id.
resolveListIdNameFirst(listId, listName, defaultToGrocery) ==
  IF Given(listName) THEN "name"
  ELSE IF Given(listId) THEN "id"
  ELSE IF defaultToGrocery THEN "type"
  ELSE "fail"

\* resolveListId: which of its four branches it takes.
resolveListId(listId, listName, defaultToGrocery) ==
  IF Given(listId) THEN "id"
  ELSE IF Given(listName) THEN "name"
  ELSE IF defaultToGrocery THEN "type"
  ELSE "fail"

\* The endpoint function that a list tool calls on the resolved list, and
\* the request it sends.
ListTools ==
  [ update_list |-> [ fn |-> "updateList", method |-> "PUT" ],
    delete_list |-> [ fn |-> "deleteList", method |-> "DELETE" ],
    create_list_item |-> [ fn |-> "createListItem", method |-> "POST" ] ]

\* A call of a modifying endpoint function: the id it is given and, for
\* the chore functions, the category fields of the request body.
NoBody == [ keys |-> {}, category_id |-> Undef, category_ids |-> << >> ]
Calls(fn, method, id, body) ==
  << [ fn |-> fn, method |-> method, id |-> id, body |-> body ] >>

\* The results of a handler: its text, an early error-flagged return, and
\* the catch clause.
Results ==
  [ text |-> [ kind |-> "text", isError |-> FALSE ],
    early |-> [ kind |-> "early", isError |-> TRUE ],
    catch |-> [ kind |-> "formatErrorForMcp", isError |-> TRUE ] ]

InitList ==
  /\ ClientUnused
  /\ UtilUnused
  /\ tool = NoTool
  /\ \E l \in UNION { [ 1..n -> ListPool ] : n \in 0..3 } :
       /\ \A i, j \in 1..Len(l) : l[i] = l[j] => i = j
       /\ run = [ NoRun EXCEPT !.lists = l ]

\* The server calls the handler of update_list, delete_list or
\* create_list_item, which runs resolveListId up to its first await.
ListCall(t) ==
  /\ run.pc = "idle"
  /\ \E listId \in { Undef, << >>, << 57 >> },
        listName \in { Undef, << >>, << 97, 98 >>, << 98 >>, << 65, 66 >>,
                       << 122 >> } :
       LET path == resolveListId(listId, listName, t = "create_list_item")
           r == [ run EXCEPT !.name = t, !.listId = listId,
                             !.listName = listName ]
       IN
       run' =
         IF path = "id"
           THEN [ r EXCEPT !.pc = "awaitModify",
                           !.calls = Calls(ListTools[t].fn,
                                           ListTools[t].method, listId,
                                           NoBody) ]
         ELSE IF path = "fail"
           THEN [ r EXCEPT !.pc = "done", !.response = Results.early ]
         ELSE [ r EXCEPT !.pc = "awaitLists", !.lookup = path ]
  /\ UNCHANGED << clientVars, utilVars, tool >>

\* getLists settles: findListByName or findListByType goes on, and the
\* handler sends its request or returns the error of resolveListId; a
\* failure of getLists is caught.
ListsSettle(ok) ==
  /\ run.pc = "awaitLists"
  /\ LET found == IF run.lookup = "name"
                    THEN findListByName(run.listName, run.lists)
                    ELSE findListByType("shopping", TRUE, run.lists)
     IN
     run' =
       IF ~ok
         THEN [ run EXCEPT !.pc = "done", !.response = Results.catch ]
       ELSE IF found = NoResource
         THEN [ run EXCEPT !.pc = "done", !.looked = TRUE,
                           !.response = Results.early ]
       ELSE [ run EXCEPT !.pc = "awaitModify", !.looked = TRUE,
                         !.found = found,
                         !.calls = Calls(ListTools[run.name].fn,
                                         ListTools[run.name].method,
                                         found.id, NoBody) ]
  /\ UNCHANGED << clientVars, utilVars, tool >>

\* The modifying request settles and the handler returns.
ModifySettles(ok) ==
  /\ run.pc = "awaitModify"
  /\ run' = [ run EXCEPT !.pc = "done",
                         !.response = IF ok THEN Results.text
                                      ELSE Results.catch ]
  /\ UNCHANGED << clientVars, utilVars, tool >>

NextList ==
  \/ \E t \in DOMAIN ListTools : ListCall(t)
  \/ \E ok \in BOOLEAN : ListsSettle(ok)
  \/ \E ok \in BOOLEAN : ModifySettles(ok)

ListSpec == InitList /\ [][NextList]_vars


\* ------------------------------------------------ chores and rewards
\* Faulty variant: createChore sets category_id alone.
createChoreIdOnly(categoryId) ==
  IF Given(categoryId)
    THEN [ keys |-> { "category_id" }, category_id |-> categoryId,
           category_ids |-> << >> ]
    ELSE NoBody

\* createChore: the category fields of the request body (the other
\* fields do not depend on the category and are left out).
createChore(categoryId) ==
  IF Given(categoryId)
    THEN [ keys |-> { "category_id", "category_ids" },
           category_id |-> categoryId, category_ids |-> << categoryId >> ]
    ELSE NoBody

\* updateChore: the category fields of the request body.
updateChore(categoryId) ==
  IF categoryId = Undef THEN NoBody
  ELSE IF categoryId = Null
    THEN [ keys |-> { "category_id" }, category_id |-> Null,
           category_ids |-> << >> ]
  ELSE [ keys |-> { "category_id", "category_ids" },
         category_id |-> categoryId, category_ids |-> << categoryId >> ]

\* The tools that assign by family-member name: the endpoint function
\* each calls, its request, and the values its schema admits for assignee
\* ("", "Dad", "Mom") and categoryId ("", "7").
ChoreTools ==
  [ create_chore |->
      [ fn |-> "createChore", method |-> "POST",
        assignees |-> { Undef, << >>, << 68, 97, 100 >>, << 77, 111, 109 >> },
        categoryIds |-> { Undef, << >>, << 55 >> } ],
    update_chore |->
      [ fn |-> "updateChore", method |-> "PUT",
        assignees |-> { Undef, Null, << >>, << 68, 97, 100 >>,
                        << 77, 111, 109 >> },
        categoryIds |-> { Undef, Null, << >>, << 55 >> } ],
    create_reward |->
      [ fn |-> "createReward", method |-> "POST",
        assignees |-> { Undef, << >>, << 68, 97, 100 >>, << 77, 111, 109 >> },
        categoryIds |-> { Undef } ],
    redeem_reward |->
      [ fn |-> "redeemReward", method |-> "POST",
        assignees |-> { Undef, << >>, << 68, 97, 100 >>, << 77, 111, 109 >> },
        categoryIds |-> { Undef } ] ]

\* What the handler of tool t does with its arguments before its first
\* await: it looks the assignee up, or it calls the endpoint function with
\* a category id.
resolveCategory(t, assignee, categoryId) ==
  IF t = "create_chore"
    THEN IF ~Given(categoryId) /\ Given(assignee)
           THEN [ lookup |-> TRUE, categoryId |-> Undef ]
           ELSE [ lookup |-> FALSE, categoryId |-> categoryId ]
  ELSE IF t = "update_chore"
    THEN IF categoryId # Undef
           THEN [ lookup |-> FALSE, categoryId |-> categoryId ]
         ELSE IF assignee = Undef
           THEN [ lookup |-> FALSE, categoryId |-> Undef ]
         ELSE IF assignee = Null
           THEN [ lookup |-> FALSE, categoryId |-> Null ]
         ELSE [ lookup |-> TRUE, categoryId |-> Undef ]
  ELSE IF Given(assignee)
    THEN [ lookup |-> TRUE, categoryId |-> Undef ]
  ELSE [ lookup |-> FALSE, categoryId |-> Undef ]

\* Faulty variant: the handler goes on without a category.
categoryMissingIgnored(category) == FALSE

\* The handlers' test of the result of findCategoryByName.
categoryMissing(category) == category = NoResource

\* The call of the endpoint function of tool t with category id.
CallWithCategory(t, categoryId) ==
  Calls(ChoreTools[t].fn, ChoreTools[t].method, categoryId,
        IF t = "create_chore" THEN createChore(categoryId)
        ELSE IF t = "update_chore" THEN updateChore(categoryId)
        ELSE NoBody)

\* The server calls the handler of create_chore, update_chore,
\* create_reward or redeem_reward, which runs up to its first await.
ChoreCall(t) ==
  /\ run.pc = "idle"
  /\ \E assignee \in ChoreTools[t].assignees,
        categoryId \in ChoreTools[t].categoryIds :
       LET step == resolveCategory(t, assignee, categoryId)
           r == [ run EXCEPT !.name = t, !.assignee = assignee,
                             !.categoryId = categoryId ]
       IN
       run' =
         IF step.lookup
           THEN [ r EXCEPT !.pc = "awaitCategory", !.lookup = "category" ]
           ELSE [ r EXCEPT !.pc = "awaitModify",
                           !.calls = CallWithCategory(t, step.categoryId) ]
  /\ UNCHANGED << clientVars, utilVars, tool >>

\* findCategoryByName settles with a category (id "5"), with undefined, or
\* with an error, which the handler catches.
CategorySettles(category, ok) ==
  /\ run.pc = "awaitCategory"
  /\ run' =
       IF ~ok
         THEN [ run EXCEPT !.pc = "done", !.response = Results.catch ]
       ELSE IF categoryMissing(category)
         THEN [ run EXCEPT !.pc = "done", !.looked = TRUE,
                           !.found = category,
                           !.response = Results.early ]
       ELSE [ run EXCEPT !.pc = "awaitModify", !.looked = TRUE,
                         !.found = category,
                         !.calls = CallWithCategory(run.name, category.id) ]
  /\ UNCHANGED << clientVars, utilVars, tool >>

NextChore ==
  \/ \E t \in DOMAIN ChoreTools : ChoreCall(t)
  \/ \E category \in { NoResource,
                       [ NoResource EXCEPT !.id = << 53 >>,
                                           !.kind = "category" ] },
        ok \in BOOLEAN : CategorySettles(category, ok)
  \/ \E ok \in BOOLEAN : ModifySettles(ok)

ChoreSpec == InitTool /\ [][NextChore]_vars


\* ------------------------------------------------------------ properties
Sent(d) == event.sends[d] # NoSend
EndedNow(d) == event.ended[d].pc = "done"
EmailMode == usesEmailAuth(config)

\* C1: in delegated-login mode at most one login exchange
\* (POST /api/sessions) is in flight in every reachable state.
C1_AtMostOneLoginInFlight ==
  EmailMode => Cardinality(inflight) <= 1

\* Two callers, one of them on its 401 retry, wait while a single login
\* exchange is in flight.
C1_Witness ==
  /\ EmailMode
  /\ Cardinality(inflight) = 1
  /\ \E d1, d2 \in Dispatches :
       /\ d1 # d2
       /\ call[d1].pc = "awaitLogin" /\ call[d1].isRetry
       /\ call[d2].pc = "awaitLogin"

\* C2: callers that request credentials while none is cached all wait for
\* one and the same login exchange, the one in flight, and when it settles
\* each of them gets its outcome: the same token and user id, or the same
\* failure.
C2_ConcurrentCallersShareOneLogin ==
  /\ \A d \in Dispatches :
       call[d].pc = "awaitLogin" => inflight = { call[d].awaiting }
  /\ event.settled # 0 =>
       LET R == { d \in Dispatches : Sent(d) \/ EndedNow(d) } IN
       \/ \A d \in R :
            /\ Sent(d) \/ event.ended[d].result = Returned("void")
            /\ Sent(d) =>
                 /\ event.sends[d].login = event.settled
                 /\ event.sends[d].token = resolvedToken
                 /\ event.sends[d].userId = resolvedUserId
            /\ cachedLogin = event.settled
       \/ /\ \A d \in R :
               /\ EndedNow(d)
               /\ event.ended[d].result.kind = "error"
          /\ \A d1, d2 \in R :
               event.ended[d1].result = event.ended[d2].result
          /\ cachedLogin # event.settled

\* One login settled successfully and two callers that waited for it sent
\* their requests in the same step.
C2_Witness ==
  /\ event.settled # 0
  /\ nLogins = 1
  /\ \E d1, d2 \in Dispatches : d1 # d2 /\ Sent(d1) /\ Sent(d2)

\* The failure case of C2: one login failed and two callers that waited
\* for it ended together.
C2_WitnessFailure ==
  /\ event.settled # 0
  /\ \E d1, d2 \in Dispatches : d1 # d2 /\ EndedNow(d1) /\ EndedNow(d2)

\* C3 as stated: a dispatch in delegated-login mode whose first request
\* was answered 401 has sent its request exactly twice when it ends, and
\* ends with AuthenticationError when the second answer is 401 too.
C3_ResendsExactlyOnce ==
  \A d \in Dispatches :
    (EmailMode /\ EndedNow(d) /\ event.ended[d].isRetry) =>
      /\ event.ended[d].nSent = 2
      /\ event.status = 401 =>
           event.ended[d].result.error.name = "AuthenticationError"

\* C3 amended: the request is re-sent at most once, and exactly once when
\* the login that the retry needs succeeds; when that login fails the
\* dispatch ends with the login's failure after one request; a second 401
\* ends it with AuthenticationError; no third request is sent.
C3_ResendsAtMostOnce ==
  \A d \in Dispatches :
    /\ call[d].nSent <= 2 /\ event.ended[d].nSent <= 2
    /\ (EmailMode /\ event.by = d /\ event.status = 401 /\ ~EndedNow(d)) =>
         /\ call[d].isRetry /\ call[d].nSent = 1
         /\ call[d].pc = "awaitLogin"
    /\ (EmailMode /\ Sent(d) /\ event.sends[d].isRetry) =>
         /\ event.sends[d].desc = DescriptorOf(d)
         /\ call[d].nSent = 2
    /\ (EmailMode /\ EndedNow(d) /\ event.ended[d].isRetry) =>
         \/ event.ended[d].nSent = 2
         \/ /\ event.ended[d].nSent = 1
            /\ event.settled # 0
            /\ event.ended[d].result.kind = "error"
    /\ (EmailMode /\ event.by = d /\ event.status = 401
          /\ EndedNow(d)) =>
         /\ event.ended[d].isRetry /\ event.ended[d].nSent = 2
         /\ event.ended[d].result.error.name = "AuthenticationError"

\* A dispatch ends on the 401 that answered its retry.
C3_Witness ==
  \E d \in Dispatches :
    /\ EmailMode /\ event.by = d /\ event.status = 401 /\ EndedNow(d)
    /\ event.ended[d].nSent = 2

\* C4: the retry after a 401 carries a credential of a login that was
\* answered after the 401 was received, never the credential the 401
\* rejected and never one taken from the cache.
C4_RetryUsesFreshCredential ==
  \A d \in Dispatches :
    (EmailMode /\ Sent(d) /\ event.sends[d].isRetry) =>
      /\ event.sends[d].login # 0
      /\ event.sends[d].login # call[d].rejected
      /\ event.sends[d].login \notin call[d].doneAt401
      /\ event.sends[d].via \in { "login", "join" }
      /\ event.settled = event.sends[d].login

\* A retry is sent with the credential of a login that another caller
\* started.
C4_Witness ==
  \E d \in Dispatches :
    /\ Sent(d) /\ event.sends[d].isRetry
    /\ event.sends[d].via = "join"
    /\ call[d].rejected # 0

\* C5: a login starts only in delegated-login mode with no credential
\* cached and no login in flight; a caller that finds a credential cached
\* is served from the cache in the same step, without a login; in
\* direct-token mode no login ever starts and every request carries the
\* configured token.
C5_LoginOnlyWhenNeeded ==
  /\ event.started.login # 0 =>
       /\ event.started.email
       /\ ~Truthy(event.started.cached)
       /\ event.started.pending = {}
  /\ (event.entered /\ Truthy(event.cached)) =>
       /\ event.started.login = 0
       /\ call[event.by].pc # "awaitLogin"
       /\ Sent(event.by) =>
            /\ event.sends[event.by].via = "cached"
            /\ event.sends[event.by].token = event.cached
  /\ ~EmailMode =>
       /\ nLogins = 0 /\ inflight = {} /\ loginPromise = 0
       /\ \A d \in Dispatches :
            /\ call[d].pc # "awaitLogin"
            /\ Sent(d) => /\ event.sends[d].token = config.token
                          /\ event.sends[d].via = "config"

\* A caller found a credential cached and sent its request with it.
C5_Witness ==
  /\ event.entered /\ Truthy(event.cached)
  /\ Sent(event.by)
  /\ event.sends[event.by].via = "cached"

\* C6 as stated: after a 401 answer to a resource request the cached
\* subject id, token and subscription tier are all absent.
C6_CredentialAndTierAbsentAfter401 ==
  event.status = 401 =>
    /\ resolvedToken = Null
    /\ resolvedUserId = Null
    /\ subscriptionStatus = "none"

\* C6 amended: after a 401 answer to a resource request (first attempt or
\* retry) the cached token and subject id are absent, so that a request
\* for credentials in delegated-login mode needs a login; the subscription
\* tier of the last login is not cleared.
C6_TokenAndUserIdAbsentAfter401 ==
  event.status = 401 =>
    /\ resolvedToken = Null
    /\ resolvedUserId = Null
    /\ cachedLogin = 0
    /\ EmailMode =>
         getCredentialsPath(resolvedToken, config, loginPromise)
           \in { "login", "join" }

\* The 401 that answers a retry arrives while a credential of a later
\* login is cached: the cache is cleared, the subscription tier stays.
C6_Witness ==
  /\ event.status = 401
  /\ EndedNow(event.by)
  /\ subscriptionStatus = "plus"
  /\ resolvedToken = Null

\* C7: in direct-token mode a 401 ends the dispatch after its one request
\* with AuthenticationError and the generic message; in delegated-login
\* mode the 401 that ends a dispatch gives AuthenticationError with the
\* frame-id hint.
C7_Final401 ==
  /\ ~EmailMode =>
       \A d \in Dispatches :
         /\ call[d].nSent <= 1 /\ ~call[d].isRetry
         /\ (event.by = d /\ event.status = 401) =>
              /\ EndedNow(d)
              /\ event.ended[d].nSent = 1
              /\ event.ended[d].result =
                   Threw(AuthenticationError(DefaultAuthMessage))
  /\ EmailMode =>
       \A d \in Dispatches :
         (event.by = d /\ event.status = 401 /\ EndedNow(d)) =>
           event.ended[d].result =
             Threw(AuthenticationError(FrameIdHintMessage))

\* A dispatch in direct-token mode ends on a 401.
C7_Witness ==
  /\ ~EmailMode
  /\ event.status = 401
  /\ EndedNow(event.by)

\* C8 as stated: in delegated-login mode every request carries
\* "Basic " + base64(userId ":" token) of the login result, whatever the
\* login result and the configured scheme; none carries "Bearer " + token
\* or "Basic " + token.
C8_EmailModeHeaderIsEncodedPair ==
  EmailMode =>
    \A d \in Dispatches :
      Sent(d) =>
        /\ event.sends[d].header =
             BasicPrefix \o Base64(event.sends[d].userId \o Colon
                                     \o event.sends[d].token)
        /\ event.sends[d].header # BearerPrefix \o event.sends[d].token
        /\ event.sends[d].header # BasicPrefix \o event.sends[d].token

\* C9: in direct-token mode the header is "Basic " + token when the scheme
\* is basic and "Bearer " + token otherwise, with the configured token
\* verbatim.
C9_DirectTokenHeaderVerbatim ==
  ~EmailMode =>
    \A d \in Dispatches :
      Sent(d) =>
        event.sends[d].header =
          (IF config.authType = "basic" THEN BasicPrefix ELSE BearerPrefix)
            \o config.token

\* A request is sent in direct-token mode with scheme basic.
C9_Witness ==
  /\ ~EmailMode
  /\ config.authType = "basic"
  /\ \E d \in Dispatches : Sent(d)

\* C10 as stated: every failure a dispatch ends with is a classified
\* failure (a SkylightError) of kind Authentication, NotFound, RateLimit
\* or Generic/Transport.
C10_EveryFailureClassified ==
  \A d \in Dispatches :
    (EndedNow(d) /\ event.ended[d].result.kind = "error") =>
      /\ IsSkylightError(event.ended[d].result.error)
      /\ event.ended[d].result.error.code
           \in { "AUTH_FAILED", "NOT_FOUND", "RATE_LIMITED", "HTTP_ERROR" }

\* C11 as stated: when the login exchange is answered 401, every caller
\* that waited for it fails with AuthenticationError whose message names
\* SKYLIGHT_EMAIL and SKYLIGHT_PASSWORD.
C11_Login401IsAuthenticationError ==
  (event.settled # 0 /\ event.loginStatus = 401) =>
    \A d \in Dispatches :
      EndedNow(d) =>
        event.ended[d].result = Threw(AuthenticationError(LoginInvalidMessage))

\* C12 as stated: a resource response with status 304 makes the dispatch
\* return an empty result.
C12_NotModifiedReturnsEmpty ==
  event.status = 304 =>
    /\ EndedNow(event.by)
    /\ event.ended[event.by].result = Returned("empty")

\* C13: a resource response with status 404 ends the dispatch with
\* NotFoundError, in both authentication modes, on the first attempt and
\* on the retry, whatever the body of the response.
C13_NotFoundAlways ==
  event.status = 404 =>
    /\ EndedNow(event.by)
    /\ event.ended[event.by].result = Threw(NotFoundError("Resource"))
    /\ event.ended[event.by].result.error.name = "NotFoundError"
    /\ event.ended[event.by].result.error.statusCode = 404

\* The retry of a dispatch in delegated-login mode is answered 404.
C13_Witness ==
  /\ EmailMode
  /\ event.status = 404
  /\ EndedNow(event.by)
  /\ event.ended[event.by].isRetry
  /\ event.ended[event.by].nSent = 2

\* The first attempt of a dispatch in direct-token mode is answered 404.
C13_WitnessDirect ==
  /\ ~EmailMode
  /\ event.status = 404
  /\ EndedNow(event.by)

\* C14 as stated: a resource response with status 429 ends the dispatch
\* with RateLimitError; a Retry-After header with the integer n >= 0
\* makes the message name n seconds, and an absent header gives the
\* message without a wait time.
C14_RateLimitCarriesRetryAfter ==
  event.status = 429 =>
    /\ EndedNow(event.by)
    /\ event.ended[event.by].result.error.name = "RateLimitError"
    /\ event.ended[event.by].result.error.message =
         IF event.retryAfter = Null
           THEN << "Rate limited by Skylight API. ",
                   "Please wait and try again." >>
           ELSE << "Rate limited by Skylight API. ", "Retry after ",
                   ToString(DigitsValue(event.retryAfter, 0)), "s" >>

C15_WitnessServer ==
  /\ event.status = 500
  /\ EndedNow(event.by)
  /\ event.ended[event.by].result.error.recoverable

\* C16: every tool handler returns a result for every outcome of the
\* operations under it: a text without the error flag when they return,
\* and the text of formatErrorForMcp with isError set for every thrown
\* value (classified failure, plain Error, value that is no Error); no
\* handler ends by throwing.
C16_EveryOutcomeRendered ==
  tool.pc = "done" =>
    /\ tool.response.kind = "result"
    /\ tool.response.text # << >>
    /\ tool.outcome.kind = "returns" => ~tool.response.isError
    /\ tool.outcome.kind = "throws" =>
         /\ tool.response.isError
         /\ tool.response.text = formatErrorForMcp(tool.outcome.error)
         /\ Len(tool.response.text) > Len(tool.outcome.error.message)

\* A handler caught a value that is no Error and returned it as text with
\* the error flag.
C16_Witness ==
  /\ tool.pc = "done"
  /\ tool.outcome.kind = "throws"
  /\ ~IsError(tool.outcome.error)
  /\ tool.response.isError
  /\ tool.response.kind = "result"

\* A handler caught a classified failure.
C16_WitnessClassified ==
  /\ tool.pc = "done"
  /\ tool.outcome.kind = "throws"
  /\ tool.outcome.error.name = "RateLimitError"
  /\ tool.response.isError

\* The calendar day after a date, the day number of a date string and
\* its weekday (0 = Sunday).
NextDay(date) ==
  IF date.d < DaysInMonth(date.y, date.m)
    THEN [ date EXCEPT !.d = date.d + 1 ]
  ELSE IF date.m < 12 THEN [ date EXCEPT !.m = date.m + 1, !.d = 1 ]
  ELSE [ y |-> date.y + 1, m |-> 1, d |-> 1 ]
DayNumber(s) == LET f == DateFields(s) IN MakeDay(f.y, f.m, f.d)
Weekday(s) == (DayNumber(s) + 1) % 7

\* The last call was parseDate with a weekday name, whose index is
\* NamedDay; Today is the current date where the result is a date: in the
\* zone passed, or in UTC when none is passed.
WeekdayAsked ==
  /\ util.fn = "parseDate"
  /\ indexOf(days, trim(toLowerCase(util.input))) # -1
NamedDay == indexOf(days, trim(toLowerCase(util.input)))
Today == getTodayDate(util.useTz, util.tz, clock)

\* C17 as stated: getCalendarEvents sends date_min unchanged and, as
\* date_max, the calendar day after the end date it was given, for every
\* end date and every offset of the host's zone from UTC.
C17_EndBoundIsNextDay ==
  util.fn = "getCalendarEvents" =>
    /\ util.out = util.input
    /\ util.out2 = FormatDate(NextDay(DateFields(util.arg)))

\* C18 as stated: for a weekday name, in any letter case and between
\* blanks, parseDate returns a date 1 to 7 days after today, and exactly
\* 7 days after today when today is the named weekday.
C18_WeekdayWithinNextSevenDays ==
  WeekdayAsked =>
    /\ DayNumber(util.out) - DayNumber(Today) \in 1..7
    /\ Weekday(Today) = NamedDay =>
         DayNumber(util.out) - DayNumber(Today) = 7

\* C19 as stated: parseDate(w, tz) returns the first date after today in
\* tz that falls on weekday w, also when the host's local date is not the
\* current date in tz.
C19_NextOccurrenceInTimezone ==
  (WeekdayAsked /\ util.useTz) =>
    /\ Weekday(util.out) = NamedDay
    /\ DayNumber(util.out) > DayNumber(toLocaleDateString(clock.now, util.tz))
    /\ DayNumber(util.out)
         <= DayNumber(toLocaleDateString(clock.now, util.tz)) + 7

\* C20: for a 12-hour input h:mm AM or PM with h in 1..12 and mm in
\* 00..59, the period in any letter case, parseTime returns HH:mm with
\* HH = h mod 12 for AM and h mod 12 + 12 for PM in two digits, an hour
\* within 00..23, and the minutes as given.
C20_TwelveHourClock ==
  (util.fn = "parseTime" /\ util.arg # << >>) =>
    LET h == util.arg[1]
        mm == util.arg[2]
        HH == IF util.arg[3] = 1 THEN (h % 12) + 12 ELSE h % 12
    IN
    /\ HH \in 0..23
    /\ util.out = << 48 + (HH \div 10), 48 + (HH % 10), 58,
                     48 + (mm \div 10), 48 + (mm % 10) >>

\* parseTime("12:00 AM") returned "00:00".
C20_Witness ==
  /\ util.fn = "parseTime"
  /\ util.input = << 49, 50, 58, 48, 48, 32, 65, 77 >>
  /\ util.out = << 48, 48, 58, 48, 48 >>

\* parseTime("11:59 pm") returned "23:59" and parseTime("9:30AM") "09:30".
C20_WitnessEvening ==
  /\ util.fn = "parseTime"
  /\ \/ /\ util.input = << 49, 49, 58, 53, 57, 32, 112, 109 >>
        /\ util.out = << 50, 51, 58, 53, 57 >>
     \/ /\ util.input = << 57, 58, 51, 48, 65, 77 >>
        /\ util.out = << 48, 57, 58, 51, 48 >>


\* ------------------------------------------------- the cache and replies
\* The cache and the login state now, in the shape of event.before.
CacheNow ==
  [ token |-> resolvedToken, userId |-> resolvedUserId,
    login |-> cachedLogin, promise |-> loginPromise ]

\* The login whose credential the request answered in this step carried.
AnsweredLogin ==
  IF EndedNow(event.by) THEN event.ended[event.by].usedLogin
  ELSE call[event.by].rejected

\* C24: a resource response with a status other than 401 leaves the
\* cached credential and the login state as they were and causes no retry:
\* the dispatch ends in that step having sent one request for the attempt,
\* no request and no login starts, and a cached credential is still the
\* one the next dispatch takes without a login.
C24_Non401LeavesCache ==
  (event.status # 0 /\ event.status # 401) =>
    /\ CacheNow = event.before
    /\ EndedNow(event.by)
    /\ event.ended[event.by].nSent =
         (IF event.ended[event.by].isRetry THEN 2 ELSE 1)
    /\ event.started = NoLogin
    /\ \A d \in Dispatches : ~Sent(d)
    /\ Truthy(event.before.token) =>
         getCredentialsPath(resolvedToken, config, loginPromise) = "cached"

\* A request sent with a cached login credential was answered 404 and the
\* credential is still cached.
C24_Witness ==
  /\ event.status = 404
  /\ EndedNow(event.by)
  /\ Truthy(event.before.token)
  /\ resolvedToken = event.before.token

\* C25: a 401 that answers a request sent with an older credential than
\* the cached one leaves the cached credential in place and starts no
\* login.
C25_Late401KeepsNewerCredential ==
  ( /\ event.status = 401
    /\ Truthy(event.before.token)
    /\ AnsweredLogin # event.before.login ) =>
    /\ resolvedToken = event.before.token
    /\ resolvedUserId = event.before.userId
    /\ event.started = NoLogin

\* C26: after a failed login no credential is cached and no login is
\* marked in flight, so that the next call of getCredentials starts a new
\* login.
C26_FailedLoginLeavesIdle ==
  (event.settled # 0 /\ cachedLogin # event.settled) =>
    /\ resolvedToken = Null
    /\ resolvedUserId = Null
    /\ loginPromise = 0
    /\ inflight = {}
    /\ getCredentialsPath(resolvedToken, config, loginPromise) = "login"

\* A login failed and its caller ended with the login's error.
C26_Witness ==
  /\ event.settled # 0 /\ cachedLogin # event.settled
  /\ \E d \in Dispatches :
       EndedNow(d) /\ event.ended[d].result.kind = "error"

\* After a failed login a later caller started the second login.
C26_WitnessNext ==
  /\ event.started.login = 2
  /\ cachedLogin = 0
  /\ \E d \in Dispatches :
       /\ call[d].pc = "done"
       /\ d # event.by

\* Every network call is eventually answered.
Answered ==
  /\ \A l \in 1..(2 * NDispatch) :
       WF_vars(\E reply \in LoginReplies : LoginResponse(l, reply))
  /\ \A d \in Dispatches :
       WF_vars(\E reply \in ResourceReplies : Response(d, reply))

LiveSpec == Spec /\ Answered

\* C27: a dispatch sends at most two resource requests and starts at most
\* two logins, and once started it ends, with a result or a failure.
C27_DispatchBoundedAndEnds ==
  /\ [](\A d \in Dispatches :
          /\ call[d].nSent <= 2 /\ event.ended[d].nSent <= 2
          /\ call[d].nStarted <= 2 /\ event.ended[d].nStarted <= 2
          /\ EndedNow(d) => event.ended[d].result # NoResult)
  /\ \A d \in Dispatches : (call[d].pc # "idle") ~> (call[d].pc = "done")

\* A dispatch ended having sent two requests and started two logins.
C27_Witness ==
  \E d \in Dispatches :
    /\ EndedNow(d)
    /\ event.ended[d].nSent = 2
    /\ event.ended[d].nStarted = 2

\* C30: the mode follows from the configuration alone.  With email and
\* password configured every request carries a login's credential, and a
\* static token configured beside them is in no Authorization header;
\* otherwise every request carries the configured token and no login
\* starts.
C30_ModeFixedAndExclusive ==
  /\ EmailMode = (config.email /\ config.password)
  /\ EmailMode =>
       \A d \in Dispatches : Sent(d) =>
         /\ event.sends[d].via \in { "cached", "login", "join" }
         /\ event.sends[d].login # 0
         /\ event.sends[d].token \in LoginTokens
         /\ config.token # Null =>
              /\ event.sends[d].token # config.token
              /\ event.sends[d].header \notin
                   { BearerPrefix \o config.token,
                     BasicPrefix \o config.token }
              /\ Truthy(event.sends[d].userId) =>
                   event.sends[d].header #
                     BasicPrefix \o
                       Base64(event.sends[d].userId \o Colon \o config.token)
  /\ ~EmailMode =>
       /\ nLogins = 0
       /\ \A d \in Dispatches : Sent(d) =>
            /\ event.sends[d].via = "config"
            /\ event.sends[d].token = config.token

\* Email, password and a static token are all configured and a request
\* was sent.
C30_Witness ==
  /\ config.email /\ config.password /\ config.token # Null
  /\ \E d \in Dispatches : Sent(d)


\* ------------------------------------------------ configuration loading
Started == nLogins > 0 \/ \E d \in Dispatches : call[d].pc # "idle"

\* The condition of C21 as stated: the frame id, and either email and
\* password or a token, are present (and the scheme is bearer or basic
\* when given).
StatedAccept(env) ==
  /\ Truthy(env.frameId)
  /\ (Truthy(env.email) /\ Truthy(env.password)) \/ Truthy(env.token)
  /\ Truthy(env.authType) => env.authType \in { AuthTypes.bearer, AuthTypes.basic }

\* C21 as stated: the configuration is accepted exactly when the frame id
\* and either email and password or a static token are present.
C21_AcceptedExactlyWhenPresent ==
  proc.pc \in { "running", "exited" } =>
    ((proc.pc = "running") <=> StatedAccept(proc.env))

\* Each of email, password and token that is set is well-formed.
WellFormed(env) ==
  /\ env.email # Null => IsEmail(env.email)
  /\ env.password # Null => env.password # << >>
  /\ env.token # Null => env.token # << >>

\* C21: the configuration is accepted exactly when the frame id and either
\* email and password or a static token are present and every credential
\* variable that is set is well-formed (the email an address, password and
\* token not empty), with scheme bearer unless basic is given; otherwise
\* the process exits with code 1; and a client that sends a login or a
\* resource request holds the accepted configuration.
C21_AcceptedExactlyWhenValid ==
  /\ proc.pc \in { "running", "exited" } =>
       ((proc.pc = "running") <=>
          (StatedAccept(proc.env) /\ WellFormed(proc.env)))
  /\ proc.pc = "exited" => proc.exitCode = 1 /\ ~Started
  /\ proc.pc = "start" => ~Started
  /\ proc.pc = "running" =>
       /\ config \in Configs
       /\ config.email = (proc.env.email # Null)
       /\ config.password = (proc.env.password # Null)
       /\ config.token = proc.env.token
       /\ config.authType =
            (IF proc.env.authType = AuthTypes.basic THEN "basic" ELSE "bearer")

\* A configuration with email, password and token was accepted and its
\* client has sent a request.
C21_Witness ==
  /\ proc.pc = "running"
  /\ proc.env.email # Null /\ proc.env.token # Null
  /\ proc.env.authType = Null
  /\ \E d \in Dispatches : Sent(d)

\* An environment was rejected and the process has exited.
C21_WitnessExit == proc.pc = "exited" /\ proc.env.frameId = Null


\* ---------------------------------------------------------- the list tools
\* A lookup by name has returned.
LookedUpByName == run.lookup = "name" /\ run.looked

\* The labels that equal name when case is ignored.
SameName(label, name) == toLowerCase(label) = toLowerCase(name)

\* C23: findListByName returns a list whose label equals the name when
\* case is ignored, and undefined when no list has that label, so that a
\* tool that resolved its list by name acts on the list of that name.
C23_FindsListOfThatName ==
  LookedUpByName =>
    /\ run.found # NoResource => SameName(run.found.label, run.listName)
    /\ run.found = NoResource =>
         \A i \in 1..Len(run.lists) :
           ~SameName(run.lists[i].label, run.listName)
    /\ \A k \in 1..Len(run.calls) :
         \E i \in 1..Len(run.lists) :
           /\ run.lists[i].id = run.calls[k].id
           /\ SameName(run.lists[i].label, run.listName)

\* The target that resolveListId yields for the arguments of the running
\* tool: the id, else the list found by name, else (create_list_item) the
\* grocery list.
Target ==
  IF Given(run.listId) THEN run.listId
  ELSE IF Given(run.listName)
    THEN findListByName(run.listName, run.lists).id
  ELSE IF run.name = "create_list_item"
    THEN findListByType("shopping", TRUE, run.lists).id
  ELSE Undef

\* C29: a list tool calls its modifying endpoint function at most once
\* and only with the target resolved in the order id, name, grocery list;
\* without id and name (update_list, delete_list), with a name that
\* findListByName finds in no list, or without a shopping list
\* (create_list_item), it returns an error-flagged result and sends no
\* PUT, DELETE or POST.
C29_ModifiesOnlyResolvedList ==
  run.name \in DOMAIN ListTools =>
    /\ Len(run.calls) <= 1
    /\ \A k \in 1..Len(run.calls) :
         /\ run.calls[k].id = Target /\ Target # Undef
         /\ run.calls[k].fn = ListTools[run.name].fn
         /\ run.calls[k].method = ListTools[run.name].method
         /\ Given(run.listId) \/ run.looked
    /\ run.pc = "awaitLists" => run.calls = << >>
    /\ ( /\ ~Given(run.listId)
         /\ \/ run.name # "create_list_item" /\ ~Given(run.listName)
            \/ /\ Given(run.listName)
               /\ \A i \in 1..Len(run.lists) :
                    ~includes(toLowerCase(run.lists[i].label),
                              toLowerCase(run.listName))
            \/ /\ run.name = "create_list_item" /\ ~Given(run.listName)
               /\ \A i \in 1..Len(run.lists) :
                    run.lists[i].kind # "shopping" ) =>
         /\ run.calls = << >>
         /\ run.pc = "done" => run.response.isError
         /\ run.pc \in { "awaitLists", "done" }

\* delete_list was given a name that no list contains and returned the
\* error of resolveListId without a request.
C29_Witness ==
  /\ run.name = "delete_list" /\ run.pc = "done"
  /\ LookedUpByName /\ run.found = NoResource
  /\ run.lists # << >>
  /\ run.response = Results.early

\* create_list_item without id and name sent its POST to the default
\* grocery list, which is not the first shopping list.
C29_WitnessGrocery ==
  /\ run.name = "create_list_item" /\ run.lookup = "type"
  /\ Len(run.calls) = 1 /\ run.calls[1].id = << 50 >>
  /\ run.lists[1].kind = "shopping" /\ run.lists[1].id # << 50 >>


\* ------------------------------------------------- the chore and reward tools
\* The calls of createChore and updateChore that the handler made.
ChoreCalls ==
  { k \in 1..Len(run.calls) :
      run.calls[k].fn \in { "createChore", "updateChore" } }
BothFields(c) ==
  /\ c.body.keys = { "category_id", "category_ids" }
  /\ c.body.category_id = c.id
  /\ c.body.category_ids = << c.id >>

\* C22 as stated: a chore create or update request that carries a
\* category assignment sets category_id and category_ids to the same id,
\* and one without an assignment has neither field.
C22_BothFieldsOrNeither ==
  \A k \in ChoreCalls :
    LET c == run.calls[k] IN
    /\ c.id # Undef => BothFields(c)
    /\ c.id = Undef => c.body.keys = {}

\* C22: createChore sets both fields when it is given a non-empty category
\* id and neither otherwise; updateChore sets both when it is given an id,
\* category_id: null alone when it is given null, and neither when the
\* category is left out.
C22_CategoryFields ==
  \A k \in ChoreCalls :
    LET c == run.calls[k] IN
    IF c.fn = "createChore"
      THEN /\ Given(c.id) => BothFields(c)
           /\ ~Given(c.id) => c.body.keys = {}
      ELSE /\ c.id \notin { Undef, Null } => BothFields(c)
           /\ c.id = Null =>
                /\ c.body.keys = { "category_id" }
                /\ c.body.category_id = Null
           /\ c.id = Undef => c.body.keys = {}

\* create_chore looked its assignee up and createChore sent both fields
\* with the id of the category found.
C22_Witness ==
  /\ run.name = "create_chore" /\ run.looked
  /\ Len(run.calls) = 1
  /\ run.calls[1].body.category_ids = << << 53 >> >>

\* update_chore with assignee null: category_id: null without category_ids.
C22_WitnessUnassign ==
  /\ run.name = "update_chore" /\ run.assignee = Null
  /\ Len(run.calls) = 1
  /\ run.calls[1].body.keys = { "category_id" }

\* The handler was given an assignee name, and a category id.
NameGiven ==
  IF run.name = "update_chore" THEN run.assignee \notin { Undef, Null }
  ELSE Given(run.assignee)
IdGiven ==
  IF run.name = "update_chore" THEN run.categoryId # Undef
  ELSE Given(run.categoryId)

\* C28: a tool that is given an assignee name (and no category id) looks
\* the name up before it calls its endpoint function; when the lookup
\* finds no category it returns an error-flagged result and never calls
\* the function; a category id given to create_chore or update_chore is
\* passed on without a lookup.
C28_UnknownAssigneeSendsNothing ==
  run.name \in DOMAIN ChoreTools =>
    /\ Len(run.calls) <= 1
    /\ (NameGiven /\ ~IdGiven) =>
         /\ run.lookup = "category"
         /\ \A k \in 1..Len(run.calls) :
              run.looked /\ run.calls[k].id = run.found.id
    /\ run.pc = "awaitCategory" => run.calls = << >>
    /\ (run.looked /\ run.found = NoResource) =>
         /\ run.pc = "done"
         /\ run.response.isError
         /\ run.calls = << >>
    /\ IdGiven =>
         /\ run.lookup = "none"
         /\ \A k \in 1..Len(run.calls) : run.calls[k].id = run.categoryId
    /\ \A k \in 1..Len(run.calls) :
         /\ run.calls[k].fn = ChoreTools[run.name].fn
         /\ run.calls[k].id \in { run.found.id, run.categoryId, Null }
         /\ run.calls[k].id = run.found.id => (run.looked \/ ~NameGiven)

\* redeem_reward was given a name that no category has and returned the
\* error without calling redeemReward.
C28_Witness ==
  /\ run.name = "redeem_reward" /\ run.pc = "done"
  /\ run.looked /\ run.found = NoResource
  /\ run.response = Results.early

\* update_chore was given a category id and an assignee and called
\* updateChore with the id, without a lookup.
C28_WitnessPrecedence ==
  /\ run.name = "update_chore"
  /\ run.categoryId = << 55 >> /\ Given(run.assignee)
  /\ Len(run.calls) = 1

====
